---------------------------- MODULE Spec2Model ----------------------------
(***************************************************************************)
(* Model of the pfSense container controller: the label translator, the    *)
(* desired-state builder, the HAProxy manager (SyncContainer and its       *)
(* retried remote calls) and the controller's driving loop.                *)
(*                                                                         *)
(* Strings are TLA+ strings; a character is a substring of length one.     *)
(***************************************************************************)
EXTENDS Integers, Sequences, FiniteSets, TLC

(***************************************************************************)
(* Bounds of the model.                                                    *)
(***************************************************************************)
\* number of timer ticks the driving loop takes
MaxTicks == 1
\* number of container events the watcher delivers
MaxEvents == 1
\* number of containers one listing of the runtime returns
MaxList == 2
\* number of container syncs the driving loop starts, over ticks and events
MaxSyncs == 2
\* number of syncs in which a remote call fails for a reason of the network
MaxFaultySyncs == 1

(***************************************************************************)
(* String helpers (package strings / regexp as used by the labels code).   *)
(***************************************************************************)
Ch(s, i) == SubSeq(s, i, i)

Min(S) == CHOOSE m \in S : \A n \in S : m <= n

LowerLetters == "abcdefghijklmnopqrstuvwxyz"
UpperLetters == "ABCDEFGHIJKLMNOPQRSTUVWXYZ"
Digits == "0123456789"

CharsOf(s) == { Ch(s, i) : i \in 1..Len(s) }

\* strings.HasSuffix
HasSuffix(s, suf) ==
    /\ Len(s) >= Len(suf)
    /\ SubSeq(s, Len(s) - Len(suf) + 1, Len(s)) = suf

\* strings.Contains
Contains(s, sub) ==
    \E i \in 1..(Len(s) - Len(sub) + 1) : SubSeq(s, i, i + Len(sub) - 1) = sub

\* strings.Split(s, "."): the parts between the dots, in order
RECURSIVE SplitDots(_)
SplitDots(s) ==
    LET dots == { i \in 1..Len(s) : Ch(s, i) = "." }
    IN  IF dots = {} THEN << s >>
        ELSE LET d == Min(dots)
             IN  << SubSeq(s, 1, d - 1) >> \o SplitDots(SubSeq(s, d + 1, Len(s)))

\* strings.ToLower on ASCII
LowerCh(c) ==
    IF c \in CharsOf(UpperLetters)
    THEN Ch(LowerLetters, CHOOSE i \in 1..26 : Ch(UpperLetters, i) = c)
    ELSE c

RECURSIVE ToLower(_)
ToLower(s) ==
    IF Len(s) = 0 THEN "" ELSE LowerCh(Head(s)) \o ToLower(Tail(s))

\* strconv.Atoi succeeds: an optional sign followed by one or more digits
AtoiOk(s) ==
    LET body == IF Len(s) > 0 /\ Head(s) \in {"+", "-"} THEN Tail(s) ELSE s
    IN  /\ Len(body) > 0
        /\ \A i \in 1..Len(body) : Ch(body, i) \in CharsOf(Digits)

(***************************************************************************)
(* labels: sanitizeName, parseRule, generateNameFromRule.                  *)
(***************************************************************************)
NameChars == CharsOf(LowerLetters) \cup CharsOf(UpperLetters)
                 \cup CharsOf(Digits) \cup {"-", "_"}

\* reg.ReplaceAllString(name, "-") with reg = [^a-zA-Z0-9\-_]
RECURSIVE ReplaceInvalid(_)
ReplaceInvalid(s) ==
    IF Len(s) = 0 THEN ""
    ELSE (IF Head(s) \in NameChars THEN Head(s) ELSE "-") \o ReplaceInvalid(Tail(s))

\* reg2.ReplaceAllString(s, "-") with reg2 = -+
RECURSIVE CollapseHyphens(_)
CollapseHyphens(s) ==
    IF Len(s) <= 1 THEN s
    ELSE IF Head(s) = "-" /\ Ch(s, 2) = "-" THEN CollapseHyphens(Tail(s))
         ELSE Head(s) \o CollapseHyphens(Tail(s))

\* strings.Trim(s, "-")
RECURSIVE TrimHyphens(_)
TrimHyphens(s) ==
    IF Len(s) = 0 THEN s
    ELSE IF Head(s) = "-" THEN TrimHyphens(Tail(s))
    ELSE IF Ch(s, Len(s)) = "-" THEN TrimHyphens(SubSeq(s, 1, Len(s) - 1))
    ELSE s

\* Seeded fault: runs of hyphens are kept
sanitizeNameNoCollapse(name) == TrimHyphens(ReplaceInvalid(name))

sanitizeName(name) == TrimHyphens(CollapseHyphens(ReplaceInvalid(name)))

\* The backquote that delimits a rule's argument.  A string literal of this
\* language cannot hold a backquote, so the model writes it as an apostrophe:
\* the rule Host(BQ a.example.com BQ) is written "Host('a.example.com')".
BQ == "'"

\* \s of the regexp package
IsSpace(c) == c \in {" ", "\t", "\n", "\r", "\f"}

\* first position at or after p that holds no white space (Len(s)+1 if none)
SkipSpace(s, p) ==
    Min({ j \in p..(Len(s) + 1) : j = Len(s) + 1 \/ ~IsSpace(Ch(s, j)) })

\* The pattern  fn \s* BQ ([^BQ]+) BQ \s* \)  matched at position i of s,
\* where fn is the function name with its opening parenthesis and BQ is the
\* backquote.  The result is the captured value, or the empty string when
\* there is no match at i (the capture group never matches the empty string).
MatchAt(s, fn, i) ==
    LET \* q, r, t: the positions of the opening backquote, of the closing
        \* backquote and of the closing parenthesis (Len(s) + 1 when missing)
        capture(q, r, t) ==
            IF /\ SubSeq(s, i, i + Len(fn) - 1) = fn
               /\ q <= Len(s)
               /\ Ch(s, q) = BQ
               /\ r <= Len(s)
               /\ r > q + 1
               /\ t <= Len(s)
               /\ Ch(s, t) = ")"
            THEN SubSeq(s, q + 1, r - 1)
            ELSE ""
        close(q, r) == capture(q, r, IF r <= Len(s) THEN SkipSpace(s, r + 1)
                                     ELSE Len(s) + 1)
        open(q) == close(q, Min({ k \in (q + 1)..Len(s) : Ch(s, k) = BQ }
                                    \cup { Len(s) + 1 }))
    IN  IF i + Len(fn) - 1 <= Len(s) THEN open(SkipSpace(s, i + Len(fn))) ELSE ""

\* FindStringSubmatch: the capture of the leftmost match, "" when none
FindSubmatch(s, fn) ==
    LET leftmost(hits) == IF hits = {} THEN "" ELSE MatchAt(s, fn, Min(hits))
    IN  leftmost({ i \in 1..Len(s) : MatchAt(s, fn, i) # "" })

\* a nil error
Nil == "<nil>"

\* Seeded fault: the Path pattern is tried before the Host pattern
parseRulePathFirst(rule) ==
    LET first(host, prefix, path) ==
            IF path # ""
            THEN [ok |-> TRUE, expression |-> "path", value |-> path, err |-> Nil]
            ELSE IF prefix # ""
            THEN [ok |-> TRUE, expression |-> "path_beg", value |-> prefix, err |-> Nil]
            ELSE IF host # ""
            THEN [ok |-> TRUE, expression |-> "host_matches", value |-> host, err |-> Nil]
            ELSE [ok |-> FALSE, expression |-> "", value |-> "",
                  err |-> "unsupported rule format: " \o rule]
    IN  first(FindSubmatch(rule, "Host("), FindSubmatch(rule, "PathPrefix("),
              FindSubmatch(rule, "Path("))

\* parseRule: Host, then PathPrefix, then Path; first match wins
parseRule(rule) ==
    LET first(host, prefix, path) ==
            IF host # ""
            THEN [ok |-> TRUE, expression |-> "host_matches", value |-> host, err |-> Nil]
            ELSE IF prefix # ""
            THEN [ok |-> TRUE, expression |-> "path_beg", value |-> prefix, err |-> Nil]
            ELSE IF path # ""
            THEN [ok |-> TRUE, expression |-> "path", value |-> path, err |-> Nil]
            ELSE [ok |-> FALSE, expression |-> "", value |-> "",
                  err |-> "unsupported rule format: " \o rule]
    IN  first(FindSubmatch(rule, "Host("), FindSubmatch(rule, "PathPrefix("),
              FindSubmatch(rule, "Path("))

\* strings.ReplaceAll(value, "/", "-")
RECURSIVE SlashToHyphen(_)
SlashToHyphen(s) ==
    IF Len(s) = 0 THEN ""
    ELSE (IF Head(s) = "/" THEN "-" ELSE Head(s)) \o SlashToHyphen(Tail(s))

\* Seeded fault: a rule that does not parse is used as it is
generateNameFromRuleRaw(rule) ==
    LET name(r) == IF r.ok /\ r.expression = "host_matches" THEN sanitizeName(r.value)
                   ELSE IF r.ok THEN sanitizeName(SlashToHyphen(r.value))
                   ELSE rule
    IN  name(parseRule(rule))

generateNameFromRule(rule) ==
    LET name(r) == sanitizeName(IF r.ok /\ r.expression = "host_matches" THEN r.value
                                ELSE IF r.ok THEN SlashToHyphen(r.value)
                                ELSE rule)
    IN  name(parseRule(rule))

(***************************************************************************)
(* labels: the label names and the translator (HAProxyParser).             *)
(*                                                                         *)
(* A container.Info is a record [Name, State, Labels, Networks]: Labels is *)
(* a function from label names to values and Networks a function from     *)
(* network names to IP addresses.  Go ranges over a map in an unspecified  *)
(* order, so an operator that ranges over a map yields the set of its      *)
(* possible results.                                                       *)
(***************************************************************************)
ControllerEnableLabel == "pfsense-controller.enable"
ControllerEndpointLabel == "pfsense-controller.endpoint"
ControllerBackendNameLabel == "pfsense-controller.backend.name"
ControllerBackendPortLabel == "pfsense-controller.backend.port"
ControllerBackendHealthCheckLabel == "pfsense-controller.backend.health_check_path"
ControllerBackendHealthMethodLabel == "pfsense-controller.backend.health_check_method"
ControllerBackendCheckTypeLabel == "pfsense-controller.backend.check_type"
ControllerBackendServerNameLabel == "pfsense-controller.backend.server_name"
ControllerFrontendNameLabel == "pfsense-controller.frontend.name"
ControllerFrontendRuleLabel == "pfsense-controller.frontend.rule"
ControllerFrontendACLNameLabel == "pfsense-controller.frontend.acl_name"
TraefikEnableLabel == "traefik.enable"
TrueValue == "true"
TraefikMode == "traefik"

getStringLabel(labels, key, defaultValue) ==
    IF key \in DOMAIN labels THEN labels[key] ELSE defaultValue

\* container.GetContainerIP: the address of the first network, in map order,
\* that has one; "" when no network has an address
GetContainerIP(info) ==
    LET ips == { info.Networks[n] : n \in DOMAIN info.Networks } \ {""}
    IN  IF ips = {} THEN {""} ELSE ips

\* a nil result with the error err
Failed(err) == [ok |-> FALSE, err |-> err]
Parsed(c) == [ok |-> TRUE, config |-> c]

\* Seeded fault: an HTTP check is accepted without a path
configureHealthCheckNoPath(config, labels) ==
    LET kind == ToLower(config.CheckType)
        none == [config EXCEPT !.HealthCheckPath = "", !.HealthCheckMethod = "",
                               !.HealthCheckVersion = ""]
    IN  IF kind = "none" \/ kind = "basic" THEN Parsed(none)
        ELSE IF kind = "http"
        THEN Parsed([config EXCEPT
                 !.HealthCheckPath =
                     getStringLabel(labels, ControllerBackendHealthCheckLabel, ""),
                 !.HealthCheckMethod =
                     getStringLabel(labels, ControllerBackendHealthMethodLabel, "OPTIONS"),
                 !.HealthCheckVersion = "HTTP/1.1\\r\\nHost:\\ " \o config.Address])
        ELSE Failed("invalid check type '" \o config.CheckType
                    \o "', must be one of: none, basic, http")

\* Seeded fault: the method of an HTTP check defaults to GET
configureHealthCheckGet(config, labels) ==
    LET kind == ToLower(config.CheckType)
        none == [config EXCEPT !.HealthCheckPath = "", !.HealthCheckMethod = "",
                               !.HealthCheckVersion = ""]
        path == getStringLabel(labels, ControllerBackendHealthCheckLabel, "")
    IN  IF kind = "none" \/ kind = "basic" THEN Parsed(none)
        ELSE IF kind = "http"
        THEN IF path = ""
             THEN Failed("health check path is required for HTTP check type "
                         \o "(pfsense-controller.backend.health_check_path)")
             ELSE Parsed([config EXCEPT
                     !.HealthCheckPath = path,
                     !.HealthCheckMethod =
                         getStringLabel(labels, ControllerBackendHealthMethodLabel, "GET"),
                     !.HealthCheckVersion = "HTTP/1.1\\r\\nHost:\\ " \o config.Address])
        ELSE Failed("invalid check type '" \o config.CheckType
                    \o "', must be one of: none, basic, http")

\* configureHealthCheck: the backend configuration with its health-check
\* fields set, or a failure
configureHealthCheck(config, labels) ==
    LET kind == ToLower(config.CheckType)
        none == [config EXCEPT !.HealthCheckPath = "", !.HealthCheckMethod = "",
                               !.HealthCheckVersion = ""]
        path == getStringLabel(labels, ControllerBackendHealthCheckLabel, "")
    IN  IF kind = "none" \/ kind = "basic" THEN Parsed(none)
        ELSE IF kind = "http"
        THEN IF path = ""
             THEN Failed("health check path is required for HTTP check type "
                         \o "(pfsense-controller.backend.health_check_path)")
             ELSE Parsed([config EXCEPT
                     !.HealthCheckPath = path,
                     !.HealthCheckMethod =
                         getStringLabel(labels, ControllerBackendHealthMethodLabel, "OPTIONS"),
                     !.HealthCheckVersion = "HTTP/1.1\\r\\nHost:\\ " \o config.Address])
        ELSE Failed("invalid check type '" \o config.CheckType
                    \o "', must be one of: none, basic, http")

NewBackendConfig(name, serverName, port, address, checkType) ==
    [Name |-> name, ServerName |-> serverName, Port |-> port, Address |-> address,
     CheckType |-> checkType, HealthCheckPath |-> "", HealthCheckMethod |-> "",
     HealthCheckVersion |-> "", BackendPassThru |-> ""]

\* the tail shared by the two backend parsers: address, check type, health
\* check and pass-through directive
FinishBackendConfig(name, serverName, port, address, labels) ==
    IF address = "" THEN Failed("could not determine container IP address")
    ELSE LET passThru(hc) ==
                 IF ~hc.ok THEN Failed("failed to configure health check: " \o hc.err)
                 ELSE Parsed([hc.config EXCEPT
                         !.BackendPassThru = "http-request set-header Host " \o address])
         IN  passThru(configureHealthCheck(
                          NewBackendConfig(name, serverName, port, address,
                              getStringLabel(labels, ControllerBackendCheckTypeLabel,
                                             "basic")),
                          labels))

\* parseControllerBackendConfig, for the address GetContainerIP returned
parseControllerBackendConfig(info, labels, address) ==
    LET given == getStringLabel(labels, ControllerBackendNameLabel, "")
        port == getStringLabel(labels, ControllerBackendPortLabel, "")
        backend(clean) ==
            FinishBackendConfig(IF given = "" THEN clean \o "-backend" ELSE given,
                getStringLabel(labels, ControllerBackendServerNameLabel, clean),
                port, address, labels)
    IN  IF port = "" THEN Failed("backend port is required")
        ELSE IF ~AtoiOk(port) THEN Failed("invalid backend port: " \o port)
        ELSE backend(sanitizeName(info.Name))

parseControllerFrontendConfig(labels) ==
    LET name == getStringLabel(labels, ControllerFrontendNameLabel, "")
        rule == getStringLabel(labels, ControllerFrontendRuleLabel, "")
        acl == getStringLabel(labels, ControllerFrontendACLNameLabel, "")
        frontend(slug) ==
            Parsed([Name |-> IF name = "" THEN "auto-frontend-" \o slug ELSE name,
                    Rule |-> rule,
                    ACLName |-> IF acl = "" THEN "auto-acl-" \o slug ELSE acl])
    IN  IF rule = "" THEN Failed("frontend rule is required")
        ELSE frontend(generateNameFromRule(rule))

\* validateRequiredLabels: the error, Nil when both labels are there
validateRequiredLabels(labels) ==
    IF getStringLabel(labels, ControllerBackendPortLabel, "") = ""
    THEN "backend port is required (pfsense-controller.backend.port)"
    ELSE IF getStringLabel(labels, ControllerFrontendRuleLabel, "") = ""
    THEN "frontend rule is required (pfsense-controller.frontend.rule)"
    ELSE Nil

\* validateConfig: the error, Nil for a valid configuration
validateConfig(config) ==
    IF config.BackendConfig.Name = "" THEN "backend name cannot be empty"
    ELSE IF config.BackendConfig.Port = "" THEN "backend port cannot be empty"
    ELSE IF config.BackendConfig.Address = "" THEN "backend address cannot be empty"
    ELSE IF config.FrontendConfig.Rule = "" THEN "frontend rule cannot be empty"
    ELSE IF config.BackendConfig.CheckType = "http"
            /\ config.BackendConfig.HealthCheckPath = ""
    THEN "health check path is required for HTTP check type"
    ELSE Nil

\* the tail shared by the two schemas: frontend, assembly and validation;
\* wrap is the text put before a backend error
FinishConfig(endpointName, backend, labels, mode, wrap) ==
    LET checked(config, err) ==
            IF err # Nil THEN Failed("configuration validation failed: " \o err)
            ELSE Parsed(config)
        validated(config) == checked(config, validateConfig(config))
        assemble(fe) ==
            IF ~fe.ok THEN Failed("failed to parse frontend config: " \o fe.err)
            ELSE validated([BackendConfig |-> backend.config, FrontendConfig |-> fe.config,
                            EndpointName |-> endpointName, ParseMode |-> mode,
                            Enabled |-> TRUE])
    IN  IF ~backend.ok THEN Failed(wrap \o backend.err)
        ELSE assemble(parseControllerFrontendConfig(labels))

\* Seeded fault: the enable label is looked for, its value is not
parseControllerLabelsAnyFlag(info, labels, address) ==
    LET required(err) ==
            IF err # Nil THEN Failed("missing required labels: " \o err)
            ELSE FinishConfig(getStringLabel(labels, ControllerEndpointLabel, "default"),
                              parseControllerBackendConfig(info, labels, address),
                              labels, "controller", "failed to parse backend config: ")
    IN  IF ControllerEnableLabel \notin DOMAIN labels
        THEN Failed("controller not enabled for container")
        ELSE required(validateRequiredLabels(labels))

\* parseControllerLabels, for the address GetContainerIP returned
parseControllerLabels(info, labels, address) ==
    LET required(err) ==
            IF err # Nil THEN Failed("missing required labels: " \o err)
            ELSE FinishConfig(getStringLabel(labels, ControllerEndpointLabel, "default"),
                              parseControllerBackendConfig(info, labels, address),
                              labels, "controller", "failed to parse backend config: ")
    IN  IF ~(ControllerEnableLabel \in DOMAIN labels
             /\ labels[ControllerEnableLabel] = TrueValue)
        THEN Failed("controller not enabled for container")
        ELSE required(validateRequiredLabels(labels))

\* the keys that carry a Traefik service port
IsServicePortKey(key) ==
    Contains(key, ".http.services.") /\ HasSuffix(key, ".loadbalancer.server.port")

ServicePortKeys(labels) == { k \in DOMAIN labels : IsServicePortKey(k) }

\* validateTraefikRequiredLabels: the error, Nil when a service port key and
\* the rule are there
validateTraefikRequiredLabels(labels) ==
    IF ServicePortKeys(labels) = {}
    THEN "Traefik service port is required "
         \o "(traefik.http.services.{service}.loadbalancer.server.port)"
    ELSE IF getStringLabel(labels, ControllerFrontendRuleLabel, "") = ""
    THEN "frontend rule is required (pfsense-controller.frontend.rule)"
    ELSE Nil

\* parseTraefikBackendConfig, for the service-port key the range over the
\* labels met first and the address GetContainerIP returned
parseTraefikBackendConfig(info, labels, key, address) ==
    LET port == labels[key]
        service(parts) == IF Len(parts) >= 4 THEN parts[4] ELSE ""
        backend(serviceName) ==
            FinishBackendConfig(
                sanitizeName(IF serviceName # "" THEN serviceName ELSE info.Name)
                    \o "-backend",
                sanitizeName(info.Name), port, address, labels)
    IN  IF port = "" THEN Failed("no service port found in traefik labels")
        ELSE IF ~AtoiOk(port) THEN Failed("invalid traefik service port: " \o port)
        ELSE backend(service(SplitDots(key)))

\* Seeded fault: the Traefik enable label is not looked at
parseTraefikLabelsNoFlag(info, labels, key, address) ==
    LET required(err) ==
            IF err # Nil
            THEN Failed("missing required labels for Traefik mode: " \o err)
            ELSE FinishConfig("default",
                              parseTraefikBackendConfig(info, labels, key, address),
                              labels, TraefikMode,
                              "failed to parse traefik backend config: ")
    IN  required(validateTraefikRequiredLabels(labels))

\* parseTraefikLabels, for one service-port key and one address
parseTraefikLabels(info, labels, key, address) ==
    LET required(err) ==
            IF err # Nil
            THEN Failed("missing required labels for Traefik mode: " \o err)
            ELSE FinishConfig("default",
                              parseTraefikBackendConfig(info, labels, key, address),
                              labels, TraefikMode,
                              "failed to parse traefik backend config: ")
    IN  IF ~(TraefikEnableLabel \in DOMAIN labels /\ labels[TraefikEnableLabel] = TrueValue)
        THEN Failed("traefik not enabled for container")
        ELSE required(validateTraefikRequiredLabels(labels))

\* the results parseTraefikLabels can return; without a service-port key it
\* fails before it looks for one
TraefikOutcomes(info, labels) ==
    IF ServicePortKeys(labels) = {}
    THEN { parseTraefikLabels(info, labels, "", a) : a \in GetContainerIP(info) }
    ELSE { parseTraefikLabels(info, labels, k, a) :
               k \in ServicePortKeys(labels), a \in GetContainerIP(info) }

\* Seeded fault: with the compatibility mode on, the Traefik schema is tried
\* first
ParseContainerCompatFirst(info, traefikCompatMode) ==
    LET labels == info.Labels
        none == Failed("no valid pfSense labels found for container")
        native == { parseControllerLabels(info, labels, a) : a \in GetContainerIP(info) }
        second(rs) ==
            { r \in rs : r.ok } \cup (IF \A r \in rs : r.ok THEN {} ELSE { none })
        outcomes(compat) ==
            { r \in compat : r.ok }
                \cup (IF \A r \in compat : r.ok THEN {} ELSE second(native))
    IN  IF DOMAIN labels = {} THEN { none }
        ELSE IF traefikCompatMode THEN outcomes(TraefikOutcomes(info, labels))
        ELSE second(native)

\* HAProxyParser.ParseContainer (and Parser.ParseContainer, which forwards to
\* it): the results it can return.  A container with no labels has the empty
\* function as its Labels.
ParseContainer(info, traefikCompatMode) ==
    LET labels == info.Labels
        none == Failed("no valid pfSense labels found for container")
        second(compat) ==
            { r \in compat : r.ok }
                \cup (IF \A r \in compat : r.ok THEN {} ELSE { none })
        outcomes(native) ==
            { r \in native : r.ok }
                \cup (IF \A r \in native : r.ok THEN {}
                      ELSE IF traefikCompatMode THEN second(TraefikOutcomes(info, labels))
                      ELSE { none })
    IN  IF DOMAIN labels = {} THEN { none }
        ELSE outcomes({ parseControllerLabels(info, labels, a) :
                            a \in GetContainerIP(info) })

(***************************************************************************)
(* labels: the desired-state builder.                                      *)
(***************************************************************************)
\* base64.StdEncoding.EncodeToString: an opaque blob that stands for the
\* encoding of s
Base64(s) == [base64 |-> s]

ConvertToHAProxyBackend(config) ==
    LET kind == ToLower(config.BackendConfig.CheckType)
    IN  [Name |-> config.BackendConfig.Name,
         Servers |-> << [Name |-> config.BackendConfig.ServerName,
                         Address |-> config.BackendConfig.Address,
                         Port |-> config.BackendConfig.Port] >>,
         AdvancedBackend |-> Base64(config.BackendConfig.BackendPassThru),
         CheckType |-> IF kind = "basic" THEN "Basic"
                       ELSE IF kind = "http" THEN "HTTP" ELSE "",
         MonitorURI |-> IF kind = "http" THEN config.BackendConfig.HealthCheckPath ELSE "",
         MonitorHTTPVersion |->
             IF kind = "http" THEN config.BackendConfig.HealthCheckVersion ELSE "",
         ID |-> 0]

\* ConvertToHAProxyFrontend: the frontend, or a failure when the rule does
\* not parse
ConvertToHAProxyFrontend(config) ==
    LET r == parseRule(config.FrontendConfig.Rule)
    IN  IF ~r.ok THEN [ok |-> FALSE]
        ELSE [ok |-> TRUE,
              frontend |->
                  [Name |-> config.FrontendConfig.Name,
                   HAACLs |-> << [Name |-> config.FrontendConfig.ACLName,
                                  Expression |-> r.expression,
                                  Value |-> r.value, ID |-> 0] >>,
                   ActionItems |-> << [Action |-> "use_backend",
                                       ACL |-> config.FrontendConfig.ACLName,
                                       Backend |-> config.BackendConfig.Name,
                                       ID |-> 0] >>,
                   ID |-> 0]]

(***************************************************************************)
(* The configuration and the containers of the model.                      *)
(***************************************************************************)
\* config.Global.RetryAttempts, at its default
RetryAttempts == 3

\* the names of config.Endpoints, in configuration order
Endpoints == << "default", "edge" >>

Net(ip) == [bridge |-> ip]

\* The containers the runtime knows, in the order in which it lists them.
Universe ==
    << \* 1: native labels, frontend "web", a Host rule
       [Name |-> "web-a", State |-> "running", Networks |-> Net("10.0.0.2"),
        Labels |-> [x \in {ControllerEnableLabel, ControllerBackendPortLabel,
                           ControllerFrontendNameLabel, ControllerFrontendRuleLabel} |->
                      CASE x = ControllerEnableLabel -> "true"
                        [] x = ControllerBackendPortLabel -> "80"
                        [] x = ControllerFrontendNameLabel -> "web"
                        [] x = ControllerFrontendRuleLabel -> "Host('a.io')"]],
       \* 2: native labels, the same frontend "web", a PathPrefix rule
       [Name |-> "web-b", State |-> "running", Networks |-> Net("10.0.0.3"),
        Labels |-> [x \in {ControllerEnableLabel, ControllerBackendPortLabel,
                           ControllerFrontendNameLabel, ControllerFrontendRuleLabel,
                           ControllerFrontendACLNameLabel} |->
                      CASE x = ControllerEnableLabel -> "true"
                        [] x = ControllerBackendPortLabel -> "8080"
                        [] x = ControllerFrontendNameLabel -> "web"
                        [] x = ControllerFrontendRuleLabel -> "PathPrefix( '/b' )"
                        [] x = ControllerFrontendACLNameLabel -> "b-acl"]],
       \* 3: native labels whose rule lacks the backquotes
       [Name |-> "bad.rule", State |-> "running", Networks |-> Net("10.0.0.4"),
        Labels |-> [x \in {ControllerEnableLabel, ControllerBackendPortLabel,
                           ControllerFrontendRuleLabel} |->
                      CASE x = ControllerEnableLabel -> "true"
                        [] x = ControllerBackendPortLabel -> "80"
                        [] x = ControllerFrontendRuleLabel -> "Host(c.io)"]],
       \* 4: no native port; Traefik labels give the backend
       [Name |-> "tr", State |-> "running", Networks |-> Net("10.0.0.5"),
        Labels |-> [x \in {ControllerEnableLabel, TraefikEnableLabel,
                           "traefik.http.services.shop.loadbalancer.server.port",
                           ControllerFrontendRuleLabel} |->
                      CASE x = ControllerEnableLabel -> "true"
                        [] x = TraefikEnableLabel -> "true"
                        [] x = "traefik.http.services.shop.loadbalancer.server.port" -> "80"
                        [] x = ControllerFrontendRuleLabel -> "Path('/t')"]],
       \* 5: a port that is no number, and a Traefik port that is no number
       [Name |-> "skip", State |-> "running", Networks |-> Net("10.0.0.6"),
        Labels |-> [x \in {ControllerEnableLabel, ControllerBackendPortLabel,
                           TraefikEnableLabel,
                           "traefik.http.services.skip.loadbalancer.server.port",
                           ControllerFrontendRuleLabel} |->
                      CASE x = ControllerEnableLabel -> "true"
                        [] x = ControllerBackendPortLabel -> "http"
                        [] x = TraefikEnableLabel -> "true"
                        [] x = "traefik.http.services.skip.loadbalancer.server.port" -> "web"
                        [] x = ControllerFrontendRuleLabel -> "Host('s.io')"]],
       \* 6: native labels, frontend "web" on the endpoint "edge"
       [Name |-> "api", State |-> "running", Networks |-> Net("10.0.1.2"),
        Labels |-> [x \in {ControllerEnableLabel, ControllerEndpointLabel,
                           ControllerBackendNameLabel, ControllerBackendPortLabel,
                           ControllerBackendCheckTypeLabel,
                           ControllerBackendHealthCheckLabel,
                           ControllerFrontendNameLabel, ControllerFrontendRuleLabel} |->
                      CASE x = ControllerEnableLabel -> "true"
                        [] x = ControllerEndpointLabel -> "edge"
                        [] x = ControllerBackendNameLabel -> "api"
                        [] x = ControllerBackendPortLabel -> "443"
                        [] x = ControllerBackendCheckTypeLabel -> "HTTP"
                        [] x = ControllerBackendHealthCheckLabel -> "/health"
                        [] x = ControllerFrontendNameLabel -> "web"
                        [] x = ControllerFrontendRuleLabel -> "Host('api.io')"]],
       \* 7: valid native labels on a container that is not running
       [Name |-> "old", State |-> "exited", Networks |-> Net("10.0.0.7"),
        Labels |-> [x \in {ControllerEnableLabel, ControllerBackendPortLabel,
                           ControllerFrontendRuleLabel} |->
                      CASE x = ControllerEnableLabel -> "true"
                        [] x = ControllerBackendPortLabel -> "80"
                        [] x = ControllerFrontendRuleLabel -> "Host('old.io')"]],
       \* 8: Traefik labels and a native rule, but no native enable label
       [Name |-> "tr-only", State |-> "running", Networks |-> Net("10.0.0.8"),
        Labels |-> [x \in {TraefikEnableLabel,
                           "traefik.http.services.only.loadbalancer.server.port",
                           ControllerFrontendRuleLabel} |->
                      CASE x = TraefikEnableLabel -> "true"
                        [] x = "traefik.http.services.only.loadbalancer.server.port" -> "80"
                        [] x = ControllerFrontendRuleLabel -> "Host('only.io')"]] >>

Containers == 1..Len(Universe)

(***************************************************************************)
(* pfsense: the JSON bodies the client sends and the remote's effect.      *)
(*                                                                         *)
(* The remote keeps, per endpoint, the list of backends, the list of       *)
(* frontends and whether changes wait for an apply.  An object's id is its *)
(* index in its list, counted from 0, as the pfSense REST API assigns it.  *)
(***************************************************************************)
\* json.Marshal of a HAProxyBackend: the id field is tagged omitempty, so an
\* ID of 0 leaves it out of the body
EncodeBackend(b) ==
    LET body == [name |-> b.Name, check_type |-> b.CheckType,
                 monitor_uri |-> b.MonitorURI,
                 monitor_httpversion |-> b.MonitorHTTPVersion,
                 advanced_backend |-> b.AdvancedBackend,
                 servers |-> [i \in 1..Len(b.Servers) |->
                                 [name |-> b.Servers[i].Name,
                                  address |-> b.Servers[i].Address,
                                  port |-> b.Servers[i].Port]]]
    IN  IF b.ID = 0 THEN body ELSE body @@ [id |-> b.ID]

\* json.Marshal of a HAProxyFrontend; the ids are 0 and left out
EncodeFrontend(f) ==
    [name |-> f.Name,
     ha_acls |-> [i \in 1..Len(f.HAACLs) |->
                     [name |-> f.HAACLs[i].Name,
                      expression |-> f.HAACLs[i].Expression,
                      value |-> f.HAACLs[i].Value]],
     a_actionitems |-> [i \in 1..Len(f.ActionItems) |->
                           [action |-> f.ActionItems[i].Action,
                            acl |-> f.ActionItems[i].ACL,
                            backend |-> f.ActionItems[i].Backend]]]

\* the body of AddACLToFrontend
EncodeACL(frontendID, acl) ==
    [parent_id |-> frontendID, name |-> acl.Name,
     expression |-> acl.Expression, value |-> acl.Value]

\* Seeded fault: the action's two references change places
EncodeActionSwapped(frontendID, action) ==
    [parent_id |-> frontendID, action |-> action.Action,
     acl |-> action.Backend, backend |-> action.ACL]

\* the body of AddActionToFrontend
EncodeAction(frontendID, action) ==
    [parent_id |-> frontendID, action |-> action.Action,
     acl |-> action.ACL, backend |-> action.Backend]

EmptyRemote == [backends |-> << >>, frontends |-> << >>, pending |-> FALSE]

\* a remote on which an administrator has set up a backend and the frontend
\* "web" by hand
PresetRemote ==
    [backends |-> << [id |-> 0, name |-> "manual", check_type |-> "",
                      monitor_uri |-> "", monitor_httpversion |-> "",
                      advanced_backend |-> "",
                      servers |-> << [name |-> "m", address |-> "10.9.9.9",
                                      port |-> "80"] >>] >>,
     frontends |-> << [id |-> 0, name |-> "web",
                       ha_acls |-> << [name |-> "m-acl", expression |-> "host_matches",
                                       value |-> "m.io"] >>,
                       a_actionitems |-> << [action |-> "use_backend", acl |-> "m-acl",
                                             backend |-> "manual"] >>] >>,
     pending |-> FALSE]

\* POST /services/haproxy/backend
RemoteCreateBackend(r, body) ==
    [r EXCEPT !.backends = Append(@, [id |-> Len(r.backends)] @@ body),
              !.pending = TRUE]

\* PATCH /services/haproxy/backend is accepted when the body names an object
RemoteAcceptsPatch(r, body) ==
    /\ "id" \in DOMAIN body
    /\ \E i \in 1..Len(r.backends) : r.backends[i].id = body.id

\* PATCH /services/haproxy/backend
RemoteUpdateBackend(r, body) ==
    [r EXCEPT !.backends = [i \in 1..Len(r.backends) |->
                               IF r.backends[i].id = body.id THEN body
                               ELSE r.backends[i]],
              !.pending = TRUE]

\* POST /services/haproxy/frontend
RemoteCreateFrontend(r, body) ==
    [r EXCEPT !.frontends = Append(@, [id |-> Len(r.frontends)] @@ body),
              !.pending = TRUE]

\* POST /services/haproxy/frontend/acl
RemoteAddACL(r, body) ==
    [r EXCEPT !.frontends = [i \in 1..Len(r.frontends) |->
                                IF r.frontends[i].id = body.parent_id
                                THEN [r.frontends[i] EXCEPT !.ha_acls =
                                         Append(@, [name |-> body.name,
                                                    expression |-> body.expression,
                                                    value |-> body.value])]
                                ELSE r.frontends[i]],
              !.pending = TRUE]

\* POST /services/haproxy/frontend/action
RemoteAddAction(r, body) ==
    [r EXCEPT !.frontends = [i \in 1..Len(r.frontends) |->
                                IF r.frontends[i].id = body.parent_id
                                THEN [r.frontends[i] EXCEPT !.a_actionitems =
                                         Append(@, [action |-> body.action,
                                                    acl |-> body.acl,
                                                    backend |-> body.backend])]
                                ELSE r.frontends[i]],
              !.pending = TRUE]

\* POST /services/haproxy/apply
RemoteApply(r) == [r EXCEPT !.pending = FALSE]

\* FindBackendByName over the decoded list: the first backend of that name
FindBackendByName(r, name) ==
    LET hits == { i \in 1..Len(r.backends) : r.backends[i].name = name }
    IN  IF hits = {} THEN [found |-> FALSE, ID |-> 0]
        ELSE [found |-> TRUE, ID |-> r.backends[Min(hits)].id]

\* Seeded fault: a lookup that never finds the frontend
FindNoFrontend(r, name) == [found |-> FALSE, ID |-> 0]

\* FindFrontendByName over the decoded list: the first frontend of that name
FindFrontendByName(r, name) ==
    LET hits == { i \in 1..Len(r.frontends) : r.frontends[i].name = name }
    IN  IF hits = {} THEN [found |-> FALSE, ID |-> 0]
        ELSE [found |-> TRUE, ID |-> r.frontends[Min(hits)].id]

(***************************************************************************)
(* haproxy.Manager and controller.Controller.                              *)
(***************************************************************************)
NoClient == "<nil>"

\* NewManager: the clients map of a configuration whose endpoints have these
\* names, in configuration order.  A client stands for the endpoint it was
\* made from and is written as that endpoint's place in the list; the client
\* of a later endpoint replaces the one of an earlier endpoint of its name.
NewManager(endpoints) ==
    [n \in { endpoints[i] : i \in 1..Len(endpoints) } |->
        CHOOSE i \in 1..Len(endpoints) :
            /\ endpoints[i] = n
            /\ \A j \in 1..Len(endpoints) : endpoints[j] = n => j <= i]

\* Config.GetDefaultEndpoint: the place of the first endpoint, 0 for nil
GetDefaultEndpoint(endpoints) == IF Len(endpoints) > 0 THEN 1 ELSE 0

\* Manager.getClient under a configuration with these endpoints: the client
\* kept under that name, else the client kept under the name of the first
\* endpoint, else nil (0)
getClientIn(endpoints, endpointName) ==
    IF endpointName \in DOMAIN NewManager(endpoints)
    THEN NewManager(endpoints)[endpointName]
    ELSE IF GetDefaultEndpoint(endpoints) # 0
            /\ endpoints[GetDefaultEndpoint(endpoints)] \in DOMAIN NewManager(endpoints)
    THEN NewManager(endpoints)[endpoints[GetDefaultEndpoint(endpoints)]]
    ELSE 0

\* Manager.getClient under the configuration of the model, whose endpoints
\* have different names: a client is named by its endpoint
getClient(endpointName) ==
    IF getClientIn(Endpoints, endpointName) = 0 THEN NoClient
    ELSE Endpoints[getClientIn(Endpoints, endpointName)]

\* DockerClient.hasControllerLabels, and the label filter of ListContainers
\* and WatchContainers
hasControllerLabels(labels) ==
    ControllerEnableLabel \in DOMAIN labels /\ labels[ControllerEnableLabel] = "true"

\* The lists container.Manager.ListContainers can return: the containers
\* present at the time that pass the label filter, in the runtime's order.
\* An error of the runtime client is swallowed and gives the empty list.
RECURSIVE ListsOfLength(_)
ListsOfLength(n) ==
    IF n = 0 THEN { << >> }
    ELSE { Append(l, c) : l \in ListsOfLength(n - 1),
                          c \in { d \in Containers :
                                    hasControllerLabels(Universe[d].Labels) } }

Listings ==
    { l \in UNION { ListsOfLength(n) : n \in 0..MaxList } :
        \A i, j \in 1..Len(l) : i < j => l[i] < l[j] }

VARIABLES
    traefikCompatMode,  \* config.Global.TraefikCompatMode
    retryAttempts,      \* config.Global.RetryAttempts
    remote,             \* endpoint name -> the state of that pfSense
    remote0,            \* the remote as the controller found it at its start
    pc,                 \* where the controller's goroutine is
    inCycle,            \* the sync in progress was started by performSync
    queue,              \* performSync: the containers still to range over
    cur,                \* SyncContainer: container, config, client, desired objects
    attempt,            \* retryOperation: the loop variable
    errorCount,         \* Controller.errorCount
    syncCount,          \* Controller.syncCount
    ticks,              \* timer ticks taken
    events,             \* events taken
    faulty,             \* syncs in which a call failed so far
    curFaulty,          \* a call of the sync in progress has failed
    calls,              \* the remote calls of the sync in progress or just returned
    started,            \* container syncs started so far
    last,               \* the sync or removal that just returned: container,
                        \* error, reason
    synced,             \* the containers whose sync returned nil after its commit
    cycle,              \* the performSync in progress or just returned: its list,
                        \* the error counter it started from, each sync's result
    job,                \* a call of one function on its own: the arguments
    out                 \* a call of one function on its own: progress and result

vars == << traefikCompatMode, retryAttempts, remote, remote0, pc, inCycle, queue, cur,
           attempt, errorCount,
           syncCount, ticks, events, faulty, curFaulty, calls, started, last, synced,
           cycle, job, out >>

NoSync == [c |-> 0]
NoFrontend == [Name |-> ""]
NoUnit == [c |-> 0, err |-> FALSE, why |-> "", src |-> ""]
NoCycle == [list |-> << >>, errors |-> 0, results |-> << >>, done |-> FALSE]
NoJob == [kind |-> "none"]
NoOut == [pc |-> "none"]

\* New: everything but the retry policy
Constructed ==
    /\ traefikCompatMode \in BOOLEAN
    /\ remote \in { [e \in { Endpoints[i] : i \in 1..Len(Endpoints) } |->
                        IF e = Endpoints[1] THEN first ELSE EmptyRemote] :
                    first \in {EmptyRemote, PresetRemote} }
    /\ remote0 = remote
    /\ pc = "select"
    /\ inCycle = FALSE
    /\ queue = << >>
    /\ cur = NoSync
    /\ attempt = 0
    /\ errorCount = 0
    /\ syncCount = 0
    /\ ticks = 0
    /\ events = 0
    /\ faulty = 0
    /\ curFaulty = FALSE
    /\ calls = << >>
    /\ started = 0
    /\ last = NoUnit
    /\ synced = << >>
    /\ cycle = NoCycle
    /\ job = NoJob
    /\ out = NoOut

\* the controller under the default retry policy
Init == Constructed /\ retryAttempts = RetryAttempts

\* Config.Validate rejects a negative retry_attempts and accepts 0
AttemptChoices == { 0, RetryAttempts }

\* the controller under a retry policy the configuration may carry
InitAttempts == Constructed /\ retryAttempts \in AttemptChoices

\* a remote call, as the log of the sync records it
Call(op, body, ok) == [op |-> op, ep |-> cur.client, body |-> body, ok |-> ok]

NoBody == [none |-> TRUE]

\* Seeded fault: the caller does not count the error
ReturnUncounted(c, err, why) ==
    /\ last' = [c |-> c, err |-> err, why |-> why,
                src |-> IF inCycle THEN "tick" ELSE "event"]
    /\ synced' = IF why = "synced" THEN Append(synced, c) ELSE synced
    /\ cycle' = IF inCycle
                THEN [cycle EXCEPT !.results = Append(@, [c |-> c, err |-> err])]
                ELSE NoCycle
    /\ errorCount' = errorCount
    /\ pc' = IF inCycle THEN "loop" ELSE "select"
    /\ cur' = NoSync
    /\ attempt' = 0

\* SyncContainer returns to syncContainer and that to its caller, which counts
\* an error: performSync goes on with its loop, Run goes back to its select
Return(c, err, why) ==
    /\ last' = [c |-> c, err |-> err, why |-> why,
                src |-> IF inCycle THEN "tick" ELSE "event"]
    /\ synced' = IF why = "synced" THEN Append(synced, c) ELSE synced
    /\ cycle' = IF inCycle
                THEN [cycle EXCEPT !.results = Append(@, [c |-> c, err |-> err])]
                ELSE NoCycle
    /\ errorCount' = IF err THEN errorCount + 1 ELSE errorCount
    /\ pc' = IF inCycle THEN "loop" ELSE "select"
    /\ cur' = NoSync
    /\ attempt' = 0

\* the client of a translated configuration
ClientOf(r) == IF r.ok THEN getClient(r.config.EndpointName) ELSE NoClient

\* Seeded fault: a container that is not eligible is reported as an error
NotEligibleAsError(c) == Return(c, TRUE, "not eligible")

\* SyncContainer when ParseContainer fails: the container is not eligible and
\* nil is returned
NotEligible(c) == Return(c, FALSE, "not eligible")

\* Controller.syncContainer and Manager.SyncContainer up to the first remote
\* call: the state check, the translation, the choice of the client and the
\* desired backend
StartSync(c) ==
    /\ calls' = << >>
    /\ curFaulty' = FALSE
    /\ started' = started + 1
    /\ IF Universe[c].State # "running"
       THEN Return(c, FALSE, "not running")
       ELSE \E r \in ParseContainer(Universe[c], traefikCompatMode) :
              IF ~r.ok
              THEN NotEligible(c)
              ELSE IF ClientOf(r) = NoClient
              THEN Return(c, TRUE, "no endpoint")
              ELSE /\ cur' = [c |-> c, config |-> r.config, client |-> ClientOf(r),
                              backend |-> ConvertToHAProxyBackend(r.config),
                              frontend |-> NoFrontend, frontendID |-> 0]
                   /\ pc' = "findBackend"
                   /\ attempt' = 0
                   /\ last' = NoUnit
                   /\ UNCHANGED << synced, cycle, errorCount >>

\* a remote call may fail for a reason of the network in a bounded number of
\* syncs
MayFail == curFaulty \/ faulty < MaxFaultySyncs

Fails ==
    /\ curFaulty' = TRUE
    /\ faulty' = IF curFaulty THEN faulty ELSE faulty + 1

\* Seeded fault: the operation is attempted before the attempts are counted
EnterRetryAttemptFirst(next, ctx) ==
    /\ pc' = next
    /\ attempt' = 0
    /\ cur' = ctx
    /\ UNCHANGED << last, synced, cycle, errorCount >>

\* retryOperation entered: with no attempts allowed the loop body never runs
\* and the operation is reported as failed
EnterRetry(next, ctx) ==
    IF retryAttempts > 0
    THEN /\ pc' = next
         /\ attempt' = 0
         /\ cur' = ctx
         /\ UNCHANGED << last, synced, cycle, errorCount >>
    ELSE Return(cur.c, TRUE, next)

\* Seeded fault: after the last attempt the failure is dropped and nil returned
RetryGivesUp(first) ==
    IF attempt + 1 < retryAttempts
    THEN /\ pc' = first
         /\ attempt' = attempt + 1
         /\ UNCHANGED << last, synced, cycle, errorCount, cur >>
    ELSE Return(cur.c, FALSE, first)

\* retryOperation after a failed attempt: the next attempt, which starts the
\* operation again, or the error after the last one
RetryFailed(first) ==
    IF attempt + 1 < retryAttempts
    THEN /\ pc' = first
         /\ attempt' = attempt + 1
         /\ UNCHANGED << last, synced, cycle, errorCount, cur >>
    ELSE Return(cur.c, TRUE, first)

\* what no step of a sync changes
loopVars == << traefikCompatMode, retryAttempts, remote0, inCycle, queue, syncCount, ticks, events, started,
              job, out >>

\* syncBackend: FindBackendByName answered; create when the name is absent,
\* else update under the identifier found
FindBackendOk ==
    /\ pc = "findBackend"
    /\ calls' = Append(calls, Call("GET backends", NoBody, TRUE))
    /\ LET existing == FindBackendByName(remote[cur.client], cur.backend.Name)
       IN  IF ~existing.found
           THEN EnterRetry("createBackend", cur)
           ELSE EnterRetry("updateBackend", [cur EXCEPT !.backend.ID = existing.ID])
    /\ UNCHANGED << remote, faulty, curFaulty, loopVars >>

\* syncBackend: the lookup failed; the error is returned without a retry
FindBackendErr ==
    /\ pc = "findBackend"
    /\ MayFail
    /\ Fails
    /\ calls' = Append(calls, Call("GET backends", NoBody, FALSE))
    /\ Return(cur.c, TRUE, "findBackend")
    /\ UNCHANGED << remote, loopVars >>

\* Seeded fault: the frontend step is left out
StartCommit ==
    /\ pc' = "apply"
    /\ attempt' = 0
    /\ UNCHANGED << last, synced, cycle, errorCount, cur >>

\* SyncContainer after syncBackend returned nil: syncFrontend converts the
\* configuration and fails without a remote call when the rule does not parse
StartFrontend ==
    \E desired \in { ConvertToHAProxyFrontend(cur.config) } :
        IF ~desired.ok
        THEN Return(cur.c, TRUE, "convert")
        ELSE /\ pc' = "findFrontend"
             /\ attempt' = 0
             /\ cur' = [cur EXCEPT !.frontend = desired.frontend]
             /\ UNCHANGED << last, synced, cycle, errorCount >>

\* an attempt of CreateHAProxyBackend succeeded
CreateBackendOk ==
    /\ pc = "createBackend"
    /\ remote' = [remote EXCEPT ![cur.client] =
                     RemoteCreateBackend(@, EncodeBackend(cur.backend))]
    /\ calls' = Append(calls, Call("POST backend", EncodeBackend(cur.backend), TRUE))
    /\ StartFrontend
    /\ UNCHANGED << faulty, curFaulty, loopVars >>

\* an attempt of CreateHAProxyBackend failed
CreateBackendErr ==
    /\ pc = "createBackend"
    /\ MayFail
    /\ Fails
    /\ calls' = Append(calls, Call("POST backend", EncodeBackend(cur.backend), FALSE))
    /\ RetryFailed("createBackend")
    /\ UNCHANGED << remote, loopVars >>

\* an attempt of UpdateHAProxyBackend succeeded
UpdateBackendOk ==
    /\ pc = "updateBackend"
    /\ RemoteAcceptsPatch(remote[cur.client], EncodeBackend(cur.backend))
    /\ remote' = [remote EXCEPT ![cur.client] =
                     RemoteUpdateBackend(@, EncodeBackend(cur.backend))]
    /\ calls' = Append(calls, Call("PATCH backend", EncodeBackend(cur.backend), TRUE))
    /\ StartFrontend
    /\ UNCHANGED << faulty, curFaulty, loopVars >>

\* an attempt of UpdateHAProxyBackend failed: the network, or the remote
\* rejecting a body that names no object
UpdateBackendErr ==
    /\ pc = "updateBackend"
    /\ IF RemoteAcceptsPatch(remote[cur.client], EncodeBackend(cur.backend))
       THEN MayFail /\ Fails
       ELSE UNCHANGED << faulty, curFaulty >>
    /\ calls' = Append(calls, Call("PATCH backend", EncodeBackend(cur.backend), FALSE))
    /\ RetryFailed("updateBackend")
    /\ UNCHANGED << remote, loopVars >>

\* Seeded fault: a frontend that exists is left as it is and nil is returned
FindFrontendOkKeepExisting ==
    /\ pc = "findFrontend"
    /\ calls' = Append(calls, Call("GET frontends", NoBody, TRUE))
    /\ LET existing == FindFrontendByName(remote[cur.client], cur.frontend.Name)
       IN  IF ~existing.found
           THEN EnterRetry("createFrontend", cur)
           ELSE Return(cur.c, FALSE, "synced")
    /\ UNCHANGED << remote, faulty, curFaulty, loopVars >>

\* syncFrontend: FindFrontendByName answered; create when the name is absent,
\* else append the first access rule and the first action
FindFrontendOk ==
    /\ pc = "findFrontend"
    /\ calls' = Append(calls, Call("GET frontends", NoBody, TRUE))
    /\ LET existing == FindFrontendByName(remote[cur.client], cur.frontend.Name)
       IN  IF ~existing.found
           THEN EnterRetry("createFrontend", cur)
           ELSE IF Len(cur.frontend.HAACLs) = 0 \/ Len(cur.frontend.ActionItems) = 0
           THEN Return(cur.c, TRUE, "missing ACL or action")
           ELSE EnterRetry("addACL", [cur EXCEPT !.frontendID = existing.ID])
    /\ UNCHANGED << remote, faulty, curFaulty, loopVars >>

\* syncFrontend: the lookup failed; the error is returned without a retry
FindFrontendErr ==
    /\ pc = "findFrontend"
    /\ MayFail
    /\ Fails
    /\ calls' = Append(calls, Call("GET frontends", NoBody, FALSE))
    /\ Return(cur.c, TRUE, "findFrontend")
    /\ UNCHANGED << remote, loopVars >>

\* an attempt of CreateHAProxyFrontend succeeded; applyChangesWithRetry follows
CreateFrontendOk ==
    /\ pc = "createFrontend"
    /\ remote' = [remote EXCEPT ![cur.client] =
                     RemoteCreateFrontend(@, EncodeFrontend(cur.frontend))]
    /\ calls' = Append(calls, Call("POST frontend", EncodeFrontend(cur.frontend), TRUE))
    /\ EnterRetry("apply", cur)
    /\ UNCHANGED << faulty, curFaulty, loopVars >>

\* an attempt of CreateHAProxyFrontend failed
CreateFrontendErr ==
    /\ pc = "createFrontend"
    /\ MayFail
    /\ Fails
    /\ calls' = Append(calls, Call("POST frontend", EncodeFrontend(cur.frontend), FALSE))
    /\ RetryFailed("createFrontend")
    /\ UNCHANGED << remote, loopVars >>

\* Seeded fault: the existing frontend's access rules are replaced by the
\* desired one
ReplaceACLsOk ==
    /\ pc = "addACL"
    /\ remote' = [remote EXCEPT ![cur.client].frontends =
                     [i \in 1..Len(@) |->
                         IF @[i].id = cur.frontendID
                         THEN [@[i] EXCEPT !.ha_acls =
                                  EncodeFrontend(cur.frontend).ha_acls]
                         ELSE @[i]],
                                ![cur.client].pending = TRUE]
    /\ calls' = Append(calls, Call("PATCH frontend", EncodeFrontend(cur.frontend), TRUE))
    /\ pc' = "addAction"
    /\ UNCHANGED << cur, attempt, errorCount, last, synced, cycle, faulty, curFaulty,
                    loopVars >>

\* UpdateFrontendWithACLAndAction: AddACLToFrontend succeeded
AddACLOk ==
    /\ pc = "addACL"
    /\ LET body == EncodeACL(cur.frontendID, cur.frontend.HAACLs[1])
       IN  /\ remote' = [remote EXCEPT ![cur.client] = RemoteAddACL(@, body)]
           /\ calls' = Append(calls, Call("POST frontend/acl", body, TRUE))
    /\ pc' = "addAction"
    /\ UNCHANGED << cur, attempt, errorCount, last, synced, cycle, faulty, curFaulty,
                    loopVars >>

\* UpdateFrontendWithACLAndAction: AddACLToFrontend failed; the attempt is over
AddACLErr ==
    /\ pc = "addACL"
    /\ MayFail
    /\ Fails
    /\ calls' = Append(calls, Call("POST frontend/acl",
                       EncodeACL(cur.frontendID, cur.frontend.HAACLs[1]), FALSE))
    /\ RetryFailed("addACL")
    /\ UNCHANGED << remote, loopVars >>

\* UpdateFrontendWithACLAndAction: AddActionToFrontend succeeded;
\* applyChangesWithRetry follows
AddActionOk ==
    /\ pc = "addAction"
    /\ LET body == EncodeAction(cur.frontendID, cur.frontend.ActionItems[1])
       IN  /\ remote' = [remote EXCEPT ![cur.client] = RemoteAddAction(@, body)]
           /\ calls' = Append(calls, Call("POST frontend/action", body, TRUE))
    /\ EnterRetry("apply", cur)
    /\ UNCHANGED << faulty, curFaulty, loopVars >>

\* UpdateFrontendWithACLAndAction: AddActionToFrontend failed; the next
\* attempt starts again with the access rule
AddActionErr ==
    /\ pc = "addAction"
    /\ MayFail
    /\ Fails
    /\ calls' = Append(calls, Call("POST frontend/action",
                       EncodeAction(cur.frontendID, cur.frontend.ActionItems[1]), FALSE))
    /\ RetryFailed("addACL")
    /\ UNCHANGED << remote, loopVars >>

\* Seeded fault: the changes are applied a second time after the first success
ApplyTwiceOk ==
    /\ pc = "apply"
    /\ remote' = [remote EXCEPT ![cur.client] = RemoteApply(@)]
    /\ calls' = Append(Append(calls, Call("POST apply", NoBody, TRUE)),
                       Call("POST apply", NoBody, TRUE))
    /\ Return(cur.c, FALSE, "synced")
    /\ UNCHANGED << faulty, curFaulty, loopVars >>

\* an attempt of ApplyHAProxyChanges succeeded; SyncContainer returns nil
ApplyOk ==
    /\ pc = "apply"
    /\ remote' = [remote EXCEPT ![cur.client] = RemoteApply(@)]
    /\ calls' = Append(calls, Call("POST apply", NoBody, TRUE))
    /\ Return(cur.c, FALSE, "synced")
    /\ UNCHANGED << faulty, curFaulty, loopVars >>

\* an attempt of ApplyHAProxyChanges failed
ApplyErr ==
    /\ pc = "apply"
    /\ MayFail
    /\ Fails
    /\ calls' = Append(calls, Call("POST apply", NoBody, FALSE))
    /\ RetryFailed("apply")
    /\ UNCHANGED << remote, loopVars >>

\* Run: the ticker fires; performSync lists the containers
Tick ==
    /\ pc = "select"
    /\ ticks < MaxTicks
    /\ \E l \in Listings :
         /\ started + Len(l) <= MaxSyncs
         /\ queue' = l
         /\ cycle' = [list |-> l, errors |-> errorCount, results |-> << >>,
                      done |-> FALSE]
    /\ ticks' = ticks + 1
    /\ inCycle' = TRUE
    /\ pc' = "loop"
    /\ calls' = << >>
    /\ last' = NoUnit
    /\ UNCHANGED << traefikCompatMode, retryAttempts, remote0, remote, cur, attempt, errorCount, syncCount,
                    events, faulty, curFaulty, started, synced, job, out >>

\* performSync: the next container of the list
CycleNext ==
    /\ pc = "loop"
    /\ queue # << >>
    /\ queue' = Tail(queue)
    /\ StartSync(Head(queue))
    /\ UNCHANGED << traefikCompatMode, retryAttempts, remote0, remote, inCycle, syncCount, ticks, events,
                    faulty, job, out >>

\* performSync: the list is done; the deferred function counts the sync and
\* performSync returns nil
CycleDone ==
    /\ pc = "loop"
    /\ queue = << >>
    /\ syncCount' = syncCount + 1
    /\ cycle' = [cycle EXCEPT !.done = TRUE]
    /\ inCycle' = FALSE
    /\ pc' = "select"
    /\ calls' = << >>
    /\ last' = NoUnit
    /\ UNCHANGED << traefikCompatMode, retryAttempts, remote0, remote, queue, cur, attempt, errorCount, ticks,
                    events, faulty, curFaulty, started, synced, job, out >>

\* Run: a start or update event; handleContainerEvent syncs the container
EventSync ==
    /\ pc = "select"
    /\ events < MaxEvents
    /\ started < MaxSyncs
    /\ events' = events + 1
    /\ \E c \in Containers, type \in {"start", "update"} :
         /\ hasControllerLabels(Universe[c].Labels)
         /\ StartSync(c)
    /\ UNCHANGED << traefikCompatMode, retryAttempts, remote0, remote, inCycle, queue, syncCount, ticks,
                    faulty, job, out >>

\* Seeded fault: the removal deletes the container's backend
RemoveContainerBackend(c) ==
    /\ calls' = << >>
    /\ \E r \in ParseContainer(Universe[c], traefikCompatMode) :
         IF ~r.ok
         THEN remote' = remote /\ Return(c, FALSE, "not managed")
         ELSE /\ remote' = [remote EXCEPT ![ClientOf(r)].backends =
                               SelectSeq(@, LAMBDA b : b.name # r.config.BackendConfig.Name)]
              /\ Return(c, FALSE, "removed")

\* Manager.RemoveContainer: translation and choice of the client, then a
\* warning that removal is not implemented; no remote call
RemoveContainer(c) ==
    /\ remote' = remote
    /\ calls' = << >>
    /\ \E r \in ParseContainer(Universe[c], traefikCompatMode) :
         IF ~r.ok THEN Return(c, FALSE, "not managed")
         ELSE IF ClientOf(r) = NoClient
         THEN Return(c, TRUE, "removal: no endpoint")
         ELSE Return(c, FALSE, "removal not implemented")

\* Run: a stop or destroy event; handleContainerEvent calls RemoveContainer
EventRemove ==
    /\ pc = "select"
    /\ events < MaxEvents
    /\ events' = events + 1
    /\ \E c \in Containers, type \in {"stop", "destroy"} :
         /\ hasControllerLabels(Universe[c].Labels)
         /\ RemoveContainer(c)
    /\ UNCHANGED << traefikCompatMode, retryAttempts, remote0, inCycle, queue, syncCount, ticks,
                    faulty, curFaulty, started, job, out >>

Next ==
    \/ Tick
    \/ CycleNext
    \/ CycleDone
    \/ EventSync
    \/ EventRemove
    \/ FindBackendOk
    \/ FindBackendErr
    \/ CreateBackendOk
    \/ CreateBackendErr
    \/ UpdateBackendOk
    \/ UpdateBackendErr
    \/ FindFrontendOk
    \/ FindFrontendErr
    \/ CreateFrontendOk
    \/ CreateFrontendErr
    \/ AddACLOk
    \/ AddACLErr
    \/ AddActionOk
    \/ AddActionErr
    \/ ApplyOk
    \/ ApplyErr

Spec == Init /\ [][Next]_vars

\* the controller under each retry policy
SpecAttempts == InitAttempts /\ [][Next]_vars

\* the controller under a ticker that fires and a goroutine that runs: Run's
\* select takes the tick when it is ready, and a cycle or a sync that has begun
\* goes on, each remote call returning, until Run is back at its select
SpecLive == Init /\ [][Next]_vars /\ WF_vars(Tick) /\ []<>(pc = "select")

(***************************************************************************)
(* Functions of the engine on their own.  A job names a function and its   *)
(* arguments, out holds its progress and its result; the controller does   *)
(* not run meanwhile.                                                      *)
(***************************************************************************)
engineVars == << traefikCompatMode, retryAttempts, remote, remote0, pc, inCycle, queue, cur,
                 attempt,
                 errorCount, syncCount, ticks, events, faulty, curFaulty, calls, started,
                 last, synced, cycle >>

\* the controller as New leaves it, on empty remotes
EngineIdle ==
    /\ traefikCompatMode = FALSE
    /\ retryAttempts = RetryAttempts
    /\ remote = [e \in { Endpoints[i] : i \in 1..Len(Endpoints) } |-> EmptyRemote]
    /\ remote0 = remote
    /\ pc = "select"
    /\ inCycle = FALSE
    /\ queue = << >>
    /\ cur = NoSync
    /\ attempt = 0
    /\ errorCount = 0
    /\ syncCount = 0
    /\ ticks = 0
    /\ events = 0
    /\ faulty = 0
    /\ curFaulty = FALSE
    /\ calls = << >>
    /\ started = 0
    /\ last = NoUnit
    /\ synced = << >>
    /\ cycle = NoCycle

(***************************************************************************)
(* Manager.retryOperation for an operation that returns nil or an error,   *)
(* under a configuration of N attempts and a delay of D seconds.           *)
(***************************************************************************)
\* the largest retry_attempts tried
MaxAttempts == 4

\* config.Global.RetryDelay at its default, in seconds
RetryDelay == 5

\* the values of retry_delay tried, in seconds
Delays == { 0, 1, RetryDelay }

\* the errors the operation may return
Errors == { "refused", "timeout" }

RetryJobs == [kind : {"retry"}, N : 0..MaxAttempts, D : Delays]

\* retryOperation entered: lastErr is nil and the loop variable 0; returns
\* lists what each call of the operation returned and slept the delays slept
RetryEntered ==
    [pc |-> "loop", attempt |-> 0, lastErr |-> "<nil>", returns |-> << >>,
     slept |-> << >>, result |-> [err |-> FALSE, attempts |-> 0, wraps |-> "<nil>"]]

InitRetry ==
    /\ job \in RetryJobs
    /\ out = RetryEntered
    /\ EngineIdle

\* Seeded fault: the same delay before every retry
BackoffDelayFlat(a, d) == d

\* the delay before the iteration whose loop variable is a
BackoffDelay(a, d) == a * d

\* Seeded fault: the first iteration sleeps too
SleepAlways(o, d) == [o EXCEPT !.slept = Append(@, BackoffDelay(o.attempt, d))]

\* the head of the loop body: every iteration but the first sleeps
Sleep(o, d) ==
    IF o.attempt > 0 THEN [o EXCEPT !.slept = Append(@, BackoffDelay(o.attempt, d))]
    ELSE o

\* an iteration in which the operation returns nil: retryOperation returns nil
RetryOperationOk ==
    /\ job.kind = "retry"
    /\ out.pc = "loop"
    /\ out.attempt < job.N
    /\ out' = [Sleep(out, job.D) EXCEPT !.returns = Append(@, "nil"),
                                        !.pc = "done",
                                        !.result = [err |-> FALSE, attempts |-> 0,
                                                    wraps |-> "<nil>"]]
    /\ UNCHANGED << job, engineVars >>

\* Seeded fault: only the first error is remembered
RetryOperationErrFirst ==
    /\ job.kind = "retry"
    /\ out.pc = "loop"
    /\ out.attempt < job.N
    /\ \E e \in Errors :
         out' = [Sleep(out, job.D) EXCEPT !.returns = Append(@, e),
                                          !.lastErr = IF @ = "<nil>" THEN e ELSE @,
                                          !.attempt = @ + 1]
    /\ UNCHANGED << job, engineVars >>

\* an iteration in which the operation returns an error: it is remembered and
\* the loop continues
RetryOperationErr ==
    /\ job.kind = "retry"
    /\ out.pc = "loop"
    /\ out.attempt < job.N
    /\ \E e \in Errors :
         out' = [Sleep(out, job.D) EXCEPT !.returns = Append(@, e),
                                          !.lastErr = e,
                                          !.attempt = @ + 1]
    /\ UNCHANGED << job, engineVars >>

\* the loop is left: the error names the attempt count and wraps lastErr
RetryOperationExhausted ==
    /\ job.kind = "retry"
    /\ out.pc = "loop"
    /\ out.attempt >= job.N
    /\ out' = [out EXCEPT !.pc = "done",
                          !.result = [err |-> TRUE, attempts |-> job.N,
                                      wraps |-> out.lastErr]]
    /\ UNCHANGED << job, engineVars >>

NextRetry ==
    \/ RetryOperationOk
    \/ RetryOperationErr
    \/ RetryOperationExhausted

SpecRetry == InitRetry /\ [][NextRetry]_vars

\* retryOperation entered by a sync whose caller holds the context of Run,
\* which is not cancelled yet
InitRetryCancel ==
    /\ job \in RetryJobs
    /\ out = [pc |-> "loop", attempt |-> 0, lastErr |-> "<nil>", returns |-> << >>,
              slept |-> << >>, result |-> [err |-> FALSE, attempts |-> 0, wraps |-> "<nil>"],
              cancelled |-> FALSE]
    /\ EngineIdle

\* the context of Run is cancelled while the loop runs; retryOperation has no
\* context parameter and reads none
CancelRetry ==
    /\ job.kind = "retry"
    /\ out.pc = "loop"
    /\ ~out.cancelled
    /\ out' = [out EXCEPT !.cancelled = TRUE]
    /\ UNCHANGED << job, engineVars >>

NextRetryCancel ==
    \/ NextRetry
    \/ CancelRetry

SpecRetryCancel == InitRetryCancel /\ [][NextRetryCancel]_vars

(***************************************************************************)
(* The choice of the client in Manager.SyncContainer, under configurations *)
(* of up to MaxEndpoints endpoints.  LoadConfig refuses a configuration    *)
(* without endpoints; NewManager and getClient take one.                   *)
(***************************************************************************)
MaxEndpoints == 3

EndpointNames == { "default", "edge", "lab" }

RECURSIVE EndpointLists(_)
EndpointLists(n) ==
    IF n = 0 THEN { << >> }
    ELSE EndpointLists(n - 1)
         \cup { Append(l, e) : l \in { m \in EndpointLists(n - 1) : Len(m) = n - 1 },
                               e \in EndpointNames }

\* container "web-a" has no endpoint label and container "api" has one
ResolveInfos ==
    { Universe[1], Universe[6],
      [Universe[6] EXCEPT !.Labels[ControllerEndpointLabel] = "lab"],
      [Universe[6] EXCEPT !.Labels[ControllerEndpointLabel] = "staging"] }

ResolveJobs == [kind : {"resolve"}, endpoints : EndpointLists(MaxEndpoints),
                info : ResolveInfos]

InitResolve ==
    /\ job \in ResolveJobs
    /\ out = [pc |-> "parse"]
    /\ EngineIdle

\* SyncContainer up to the choice of the client: the translation and
\* getClient; nil makes SyncContainer return an error
SelectClient ==
    /\ job.kind = "resolve"
    /\ out.pc = "parse"
    /\ \E r \in ParseContainer(job.info, FALSE) :
         /\ r.ok
         /\ out' = [pc |-> "done",
                    name |-> r.config.EndpointName,
                    client |-> getClientIn(job.endpoints, r.config.EndpointName),
                    err |-> getClientIn(job.endpoints, r.config.EndpointName) = 0]
    /\ UNCHANGED << job, engineVars >>

NextResolve == SelectClient

SpecResolve == InitResolve /\ [][NextResolve]_vars

(***************************************************************************)
(* Parser.ParseContainer on its own, for containers whose labels are drawn *)
(* from the values below, with and without an address, under either        *)
(* setting of the compatibility mode.                                      *)
(***************************************************************************)
\* stands for a label the container does not carry
Absent == "<absent>"

TraefikPortLabel == "traefik.http.services.shop.loadbalancer.server.port"

\* what a container may carry under each label
LabelChoices ==
    [enable : { Absent, "true", "false" },
     port : { Absent, "", "80", "http" },
     rule : { Absent, "", "Host('a.io')" },
     checkType : { Absent, "http", "HTTP", "tcp", "none" },
     path : { Absent, "", "/h" },
     method : { Absent, "GET" },
     traefikEnable : { Absent, "true", "false" },
     traefikPort : { Absent, "80", "web" }]

\* the label map of a choice
LabelsOf(c) ==
    LET all == (ControllerEnableLabel :> c.enable)
               @@ (ControllerBackendPortLabel :> c.port)
               @@ (ControllerFrontendRuleLabel :> c.rule)
               @@ (ControllerBackendCheckTypeLabel :> c.checkType)
               @@ (ControllerBackendHealthCheckLabel :> c.path)
               @@ (ControllerBackendHealthMethodLabel :> c.method)
               @@ (TraefikEnableLabel :> c.traefikEnable)
               @@ (TraefikPortLabel :> c.traefikPort)
    IN  [k \in { l \in DOMAIN all : all[l] # Absent } |-> all[k]]

TranslateJobs ==
    { [kind |-> "translate", compat |-> m,
       info |-> [Name |-> "web-a", State |-> "running", Networks |-> Net(a),
                 Labels |-> LabelsOf(c)]] :
        m \in BOOLEAN, a \in { "", "10.0.0.9" }, c \in LabelChoices }

InitTranslate ==
    /\ job \in TranslateJobs
    /\ out = [pc |-> "call"]
    /\ EngineIdle

\* ParseContainer called and returned
Translate ==
    /\ job.kind = "translate"
    /\ out.pc = "call"
    /\ \E r \in ParseContainer(job.info, job.compat) :
         out' = [pc |-> "done", result |-> r]
    /\ UNCHANGED << job, engineVars >>

NextTranslate == Translate

SpecTranslate == InitTranslate /\ [][NextTranslate]_vars

(***************************************************************************)
(* parseRule on its own, for rules written as one term or as two terms     *)
(* joined by a boolean operator.                                           *)
(***************************************************************************)
RuleFns == { "Host", "PathPrefix", "Path" }

\* a term  fn ( pad q value q pad )  where q is the backquote or nothing
Terms ==
    [fn : RuleFns \cup { "host", "Method" }, value : { "a.io", "/api", "" },
     pad : { "", " " }, quoted : BOOLEAN]

Render(t) ==
    LET q == IF t.quoted THEN BQ ELSE ""
    IN  t.fn \o "(" \o t.pad \o q \o t.value \o q \o t.pad \o ")"

\* the terms that are joined in pairs
JoinedTerms ==
    { t \in Terms : t.pad = "" /\ t.value # "" /\ t.fn # "host" }

RuleJobs ==
    { [kind |-> "rule", terms |-> << t >>, rule |-> Render(t)] : t \in Terms }
    \cup
    { [kind |-> "rule", terms |-> << pr[1], pr[2] >>,
       rule |-> Render(pr[1]) \o op \o Render(pr[2])] :
          pr \in JoinedTerms \X JoinedTerms, op \in { " && ", " || " } }

InitRule ==
    /\ job \in RuleJobs
    /\ out = [pc |-> "call"]
    /\ EngineIdle

\* parseRule called and returned
ParseRule ==
    /\ job.kind = "rule"
    /\ out.pc = "call"
    /\ out' = [pc |-> "done", result |-> parseRule(job.rule)]
    /\ UNCHANGED << job, engineVars >>

NextRule == ParseRule

SpecRule == InitRule /\ [][NextRule]_vars

(***************************************************************************)
(* sanitizeName on its own, applied to a name and then to its own result.  *)
(***************************************************************************)
MaxNameLen == 4

NameAlphabet == { "a", "Z", "7", "-", "_", ".", "/" }

\* the strings over the alphabet of at most n characters
RECURSIVE NamesUpTo(_)
NamesUpTo(n) ==
    IF n = 0 THEN { "" }
    ELSE LET shorter == NamesUpTo(n - 1)
         IN  shorter \cup { c \o s : c \in NameAlphabet, s \in shorter }

SanitizeJobs == { [kind |-> "sanitize", name |-> n] : n \in NamesUpTo(MaxNameLen) }

InitSanitize ==
    /\ job \in SanitizeJobs
    /\ out = [pc |-> "call"]
    /\ EngineIdle

\* sanitizeName(name) called and returned
Sanitize ==
    /\ job.kind = "sanitize"
    /\ out.pc = "call"
    /\ out' = [pc |-> "once", result |-> sanitizeName(job.name)]
    /\ UNCHANGED << job, engineVars >>

\* sanitizeName called on the result of the first call
SanitizeAgain ==
    /\ job.kind = "sanitize"
    /\ out.pc = "once"
    /\ out' = [pc |-> "twice", result |-> out.result, again |-> sanitizeName(out.result)]
    /\ UNCHANGED << job, engineVars >>

NextSanitize == Sanitize \/ SanitizeAgain

SpecSanitize == InitSanitize /\ [][NextSanitize]_vars

(***************************************************************************)
(* Parser.ParseContainer for containers that differ in their name, port,   *)
(* rule and name labels.                                                   *)
(***************************************************************************)
ContainerNames == { "web-a", "my.app" }

\* what a container may carry under each label; the container carries
\* traefik.enable=true exactly when it carries the Traefik port label
NameChoices ==
    [enable : { Absent, "true" },
     port : { "80", "0", "-1", "http" },
     rule : { "Host('a.io')", "PathPrefix('/api')", "PathPrefix('/')", "Host(c.io)" },
     backendName : { Absent, "", "my backend" },
     serverName : { Absent, "", "srv 1" },
     frontendName : { Absent, "", "web front" },
     aclName : { Absent, "acl.1" },
     traefikPort : { Absent, "80", "0" }]

NameLabelsOf(c) ==
    LET all == (ControllerEnableLabel :> c.enable)
               @@ (ControllerBackendPortLabel :> c.port)
               @@ (ControllerFrontendRuleLabel :> c.rule)
               @@ (ControllerBackendNameLabel :> c.backendName)
               @@ (ControllerBackendServerNameLabel :> c.serverName)
               @@ (ControllerFrontendNameLabel :> c.frontendName)
               @@ (ControllerFrontendACLNameLabel :> c.aclName)
               @@ (TraefikEnableLabel :> IF c.traefikPort = Absent THEN Absent ELSE "true")
               @@ (TraefikPortLabel :> c.traefikPort)
    IN  [k \in { l \in DOMAIN all : all[l] # Absent } |-> all[k]]

NameJobs ==
    { [kind |-> "translate", compat |-> m,
       info |-> [Name |-> n, State |-> "running", Networks |-> Net("10.0.0.9"),
                 Labels |-> NameLabelsOf(c)]] :
        m \in BOOLEAN, n \in ContainerNames, c \in NameChoices }

InitNames ==
    /\ job \in NameJobs
    /\ out = [pc |-> "call"]
    /\ EngineIdle

SpecNames == InitNames /\ [][NextTranslate]_vars

(***************************************************************************)
(* The translation of containers that publish one or two Traefik services. *)
(***************************************************************************)
TraefikAdminPortLabel == "traefik.http.services.admin.loadbalancer.server.port"

PortChoices ==
    [enable : { Absent, "true" },
     port : { Absent, "80" },
     rule : { Absent, "Host('a.io')" },
     traefikEnable : { Absent, "true" },
     traefikPort : { Absent, "80", "0" },
     adminPort : { Absent, "80", "8080", "web" }]

PortLabelsOf(c) ==
    LET all == (ControllerEnableLabel :> c.enable)
               @@ (ControllerBackendPortLabel :> c.port)
               @@ (ControllerFrontendRuleLabel :> c.rule)
               @@ (TraefikEnableLabel :> c.traefikEnable)
               @@ (TraefikPortLabel :> c.traefikPort)
               @@ (TraefikAdminPortLabel :> c.adminPort)
    IN  [k \in { l \in DOMAIN all : all[l] # Absent } |-> all[k]]

PortJobs ==
    { [kind |-> "translate", compat |-> m,
       info |-> [Name |-> n, State |-> "running", Networks |-> Net("10.0.0.9"),
                 Labels |-> PortLabelsOf(c)]] :
        m \in BOOLEAN, n \in ContainerNames, c \in PortChoices }

InitPorts ==
    /\ job \in PortJobs
    /\ out = [pc |-> "call"]
    /\ EngineIdle

SpecPorts == InitPorts /\ [][NextTranslate]_vars

(***************************************************************************)
(* The container source on its own: DockerClient.ListContainers for the    *)
(* containers the runtime holds, and WatchContainers for one event of the  *)
(* runtime.                                                                *)
(***************************************************************************)
MaxPresent == 3

\* filterArgs.Add("label", ControllerEnableLabel+"=true"): the runtime's own
\* filter on the containers it lists and on the events it sends
LabelFilter(labels) ==
    ControllerEnableLabel \in DOMAIN labels /\ labels[ControllerEnableLabel] = "true"

\* DockerClient.ListContainers over the containers the runtime holds, running
\* or not (All: true)
ListContainers(present) ==
    SelectSeq(present, LAMBDA c : LabelFilter(Universe[c].Labels))

NoEvent == [Type |-> "<nil>"]

\* DockerClient.handleDockerEvent for an event of the container c
handleDockerEvent(action, c) ==
    IF action \notin { "start", "stop", "destroy", "update" } THEN NoEvent
    ELSE IF ~hasControllerLabels(Universe[c].Labels) THEN NoEvent
    ELSE [Type |-> action, Container |-> c]

\* DockerClient.WatchContainers for one event of the runtime: what is put on
\* the event channel, NoEvent for nothing
WatchContainers(action, c) ==
    IF ~LabelFilter(Universe[c].Labels) THEN NoEvent ELSE handleDockerEvent(action, c)

\* the containers of S in ascending order
RECURSIVE Ascending(_)
Ascending(S) ==
    IF S = {} THEN << >> ELSE << Min(S) >> \o Ascending(S \ { Min(S) })

DockerActions == { "start", "stop", "destroy", "update", "die" }

SourceJobs ==
    { [kind |-> "list", compat |-> m, present |-> Ascending(S)] :
          m \in BOOLEAN, S \in { T \in SUBSET Containers : Cardinality(T) <= MaxPresent } }
    \cup
    { [kind |-> "event", compat |-> m, action |-> a, c |-> c] :
          m \in BOOLEAN, a \in DockerActions, c \in Containers }

InitSource ==
    /\ job \in SourceJobs
    /\ out = [pc |-> "call"]
    /\ EngineIdle

\* performSync's call of ListContainers returned
List ==
    /\ job.kind = "list"
    /\ out.pc = "call"
    /\ out' = [pc |-> "done", list |-> ListContainers(job.present)]
    /\ UNCHANGED << job, engineVars >>

\* the runtime had an event and WatchContainers dealt with it
Watch ==
    /\ job.kind = "event"
    /\ out.pc = "call"
    /\ out' = [pc |-> "done", event |-> WatchContainers(job.action, job.c)]
    /\ UNCHANGED << job, engineVars >>

NextSource == List \/ Watch

SpecSource == InitSource /\ [][NextSource]_vars

(***************************************************************************)
(* The goroutines of Controller.Run: the select loop, the watcher of each  *)
(* container runtime, the ticker, the handler of a metrics request and the *)
(* owner of the context.  A container sync is a call SyncContainer that    *)
(* makes up to MaxCalls remote calls and returns nil or an error; syncs    *)
(* holds the calls in progress with the goroutine each runs in.            *)
(***************************************************************************)
MaxRunTicks == 1
MaxSent == 2
MaxCalls == 2
MaxReads == 1

\* Manager.WatchContainers starts one goroutine per runtime client; each
\* runtime reports the events of its own container
Watchers == { "docker", "podman" }
ContainerOf(w) == IF w = "docker" THEN 1 ELSE 2

\* the containers ListContainers returns, the same in every cycle of a run
RunListings == { << >>, << 1, 2 >> }

RunJobs == [kind : {"run"}, list : RunListings]

\* the mutex is free and a writer may lock it
MuFree(o) == o.mu = "free"

InitRun ==
    /\ job \in RunJobs
    /\ out = [pc |-> "select",        \* where the goroutine of Run is
              cancelled |-> FALSE,    \* ctx.Done() is closed
              tick |-> FALSE,         \* ticker.C holds a tick
              ticks |-> 0,            \* ticks the ticker produced
              chan |-> << >>,         \* eventChan
              sent |-> 0,             \* events the watchers have sent
              queue |-> << >>,        \* performSync: containers still to range over
              start |-> 0,            \* performSync: start, as the cycle's number
              cycleErrs |-> 0,        \* failed container syncs of the cycle in progress
              syncs |-> {},           \* calls of SyncContainer in progress
              started |-> 0,          \* calls of SyncContainer so far
              log |-> << >>,          \* the remote calls, each with its sync
              syncCount |-> 0,        \* Controller.syncCount
              errorCount |-> 0,       \* Controller.errorCount
              lastSyncTime |-> 0,     \* Controller.lastSyncTime, as a cycle's number
              mu |-> "free",          \* Controller.mu: free, writer or reader
              rpc |-> "idle",         \* where the metrics handler is
              snap |-> [syncCount |-> 0, errorCount |-> 0, lastSyncTime |-> 0],
              reads |-> 0]            \* metrics requests answered
    /\ EngineIdle

RunStep(o) ==
    /\ job.kind = "run"
    /\ out' = o
    /\ UNCHANGED << job, engineVars >>

\* the owner of the context cancels it
Cancel ==
    /\ job.kind = "run"
    /\ ~out.cancelled
    /\ out.pc # "exit"
    /\ RunStep([out EXCEPT !.cancelled = TRUE])

\* the ticker sends on its channel of capacity 1 and drops the tick when the
\* channel is full
TickerFire ==
    /\ job.kind = "run"
    /\ out.pc # "exit"
    /\ out.ticks < MaxRunTicks
    /\ ~out.tick
    /\ RunStep([out EXCEPT !.tick = TRUE, !.ticks = @ + 1])

\* a runtime client's watcher sends an event; the channel holds 100 events
WatcherSend ==
    /\ job.kind = "run"
    /\ out.pc # "exit"
    /\ out.sent < MaxSent
    /\ Len(out.chan) < 100
    /\ \E w \in Watchers, type \in { "start", "stop" } :
         RunStep([out EXCEPT !.chan = Append(@, [from |-> w, type |-> type,
                                                 c |-> ContainerOf(w)]),
                             !.sent = @ + 1])

\* Run: the case <-ctx.Done() of the select; shutdown and return
RunShutdown ==
    /\ job.kind = "run"
    /\ out.pc = "select"
    /\ out.cancelled
    /\ RunStep([out EXCEPT !.pc = "exit"])

\* Run: the case <-ticker.C; performSync notes its start and lists; the error
\* branch after ListContainers is dead, Manager.ListContainers returns nil
RunTick ==
    /\ job.kind = "run"
    /\ out.pc = "select"
    /\ out.tick
    /\ RunStep([out EXCEPT !.tick = FALSE, !.pc = "loop", !.start = out.syncCount + 1,
                           !.queue = job.list, !.cycleErrs = 0])

\* a call of SyncContainer entered by the goroutine g
NewSync(o, g, src, c) ==
    [o EXCEPT !.syncs = @ \cup { [g |-> g, id |-> o.started + 1, src |-> src, c |-> c,
                                  calls |-> 0] },
              !.started = @ + 1]

\* performSync: the next container of the range; no look at the context
LoopNext ==
    /\ job.kind = "run"
    /\ out.pc = "loop"
    /\ out.queue # << >>
    /\ RunStep([NewSync(out, "run", "tick", Head(out.queue)) EXCEPT
                    !.pc = "sync", !.queue = Tail(@)])

\* performSync: the range is over, the deferred function runs
LoopDone ==
    /\ job.kind = "run"
    /\ out.pc = "loop"
    /\ out.queue = << >>
    /\ RunStep([out EXCEPT !.pc = "defer"])

\* Seeded fault: the deferred function writes without the mutex
DeferNoLock ==
    /\ job.kind = "run"
    /\ out.pc = "defer"
    /\ RunStep([out EXCEPT !.pc = "deferTime"])

\* the deferred function of performSync: c.mu.Lock()
DeferLock ==
    /\ job.kind = "run"
    /\ out.pc = "defer"
    /\ MuFree(out)
    /\ RunStep([out EXCEPT !.pc = "deferTime", !.mu = "writer"])

\* c.lastSyncTime = start
DeferTime ==
    /\ job.kind = "run"
    /\ out.pc = "deferTime"
    /\ RunStep([out EXCEPT !.pc = "deferCount", !.lastSyncTime = out.start])

\* c.syncCount++
DeferCount ==
    /\ job.kind = "run"
    /\ out.pc = "deferCount"
    /\ RunStep([out EXCEPT !.pc = "deferUnlock", !.syncCount = @ + 1])

\* c.mu.Unlock(); performSync returns nil to Run
DeferUnlock ==
    /\ job.kind = "run"
    /\ out.pc = "deferUnlock"
    /\ RunStep([out EXCEPT !.pc = "select", !.mu = "free"])

\* Seeded fault: the event is handled in a goroutine of its own
RunEventInGoroutine ==
    /\ job.kind = "run"
    /\ out.pc = "select"
    /\ out.chan # << >>
    /\ LET ev == Head(out.chan)
           o == [out EXCEPT !.chan = Tail(@)]
       IN  IF ev.type = "start"
           THEN RunStep(NewSync(o, "handler", "event", ev.c))
           ELSE \E err \in BOOLEAN :
                  /\ err => MuFree(out)
                  /\ RunStep([o EXCEPT !.errorCount = IF err THEN @ + 1 ELSE @])

\* Run: the case event := <-eventChan; handleContainerEvent is called in the
\* goroutine of Run: a start event syncs the container, a stop event calls
\* RemoveContainer, whose error is counted
RunEvent ==
    /\ job.kind = "run"
    /\ out.pc = "select"
    /\ out.chan # << >>
    /\ LET ev == Head(out.chan)
           o == [out EXCEPT !.chan = Tail(@)]
       IN  IF ev.type = "start"
           THEN RunStep([NewSync(o, "run", "event", ev.c) EXCEPT !.pc = "sync"])
           ELSE \E err \in BOOLEAN :
                  /\ err => MuFree(out)
                  /\ RunStep([o EXCEPT !.errorCount = IF err THEN @ + 1 ELSE @])

\* a remote call of a sync in progress
SyncCall ==
    /\ job.kind = "run"
    /\ \E s \in out.syncs :
         /\ s.calls < MaxCalls
         /\ RunStep([out EXCEPT !.syncs = (@ \ {s}) \cup { [s EXCEPT !.calls = @ + 1] },
                                !.log = Append(@, [id |-> s.id, src |-> s.src])])

\* SyncContainer returns; its caller counts an error with incrementErrorCount,
\* under the mutex, and goes on: performSync with its range, Run with its select
SyncReturn ==
    /\ job.kind = "run"
    /\ \E s \in out.syncs, err \in BOOLEAN :
         /\ err => MuFree(out)
         /\ RunStep([out EXCEPT
                !.syncs = @ \ {s},
                !.errorCount = IF err THEN @ + 1 ELSE @,
                !.cycleErrs = IF err /\ s.src = "tick" THEN @ + 1 ELSE @,
                !.pc = IF s.g # "run" THEN @
                       ELSE IF s.src = "tick" THEN "loop" ELSE "select"])

\* metricsHandler: c.mu.RLock()
MetricsRLock ==
    /\ job.kind = "run"
    /\ out.rpc = "idle"
    /\ out.pc # "exit"
    /\ out.reads < MaxReads
    /\ out.mu # "writer"
    /\ RunStep([out EXCEPT !.rpc = "syncCount", !.mu = "reader"])

\* syncCount := c.syncCount
MetricsReadSyncCount ==
    /\ job.kind = "run"
    /\ out.rpc = "syncCount"
    /\ RunStep([out EXCEPT !.rpc = "errorCount", !.snap.syncCount = out.syncCount])

\* errorCount := c.errorCount
MetricsReadErrorCount ==
    /\ job.kind = "run"
    /\ out.rpc = "errorCount"
    /\ RunStep([out EXCEPT !.rpc = "lastSync", !.snap.errorCount = out.errorCount])

\* lastSync := c.lastSyncTime; c.mu.RUnlock()
MetricsReadLastSync ==
    /\ job.kind = "run"
    /\ out.rpc = "lastSync"
    /\ RunStep([out EXCEPT !.rpc = "idle", !.snap.lastSyncTime = out.lastSyncTime,
                           !.mu = "free", !.reads = @ + 1])

NextRun ==
    \/ Cancel
    \/ TickerFire
    \/ WatcherSend
    \/ RunShutdown
    \/ RunTick
    \/ LoopNext
    \/ LoopDone
    \/ DeferLock
    \/ DeferTime
    \/ DeferCount
    \/ DeferUnlock
    \/ RunEvent
    \/ SyncCall
    \/ SyncReturn
    \/ MetricsRLock
    \/ MetricsReadSyncCount
    \/ MetricsReadErrorCount
    \/ MetricsReadLastSync

SpecRun == InitRun /\ [][NextRun]_vars

(***************************************************************************)
(* Properties of the engine.                                               *)
(***************************************************************************)
BackendWrites == { "POST backend", "PATCH backend" }
FrontendCalls == { "GET frontends", "POST frontend", "POST frontend/acl",
                   "POST frontend/action" }
RemovalReasons == { "not managed", "removal not implemented", "removal: no endpoint" }

\* the backend step of the sync has succeeded within its first n calls
BackendDone(n) ==
    \E j \in 1..n : calls[j].op \in BackendWrites /\ calls[j].ok

\* the frontend step of the sync has succeeded within its first n calls
FrontendDone(n) ==
    \E j \in 1..n : calls[j].op \in { "POST frontend", "POST frontend/action" }
                    /\ calls[j].ok

\* the commit calls of the sync
Commits == { i \in 1..Len(calls) : calls[i].op = "POST apply" }

\* a sync has just returned and calls holds the remote calls it made
SyncReturned == last.c # 0 /\ last.why \notin RemovalReasons

BackendsNamed(r, name) == { i \in 1..Len(r.backends) : r.backends[i].name = name }
FrontendsNamed(r, name) == { i \in 1..Len(r.frontends) : r.frontends[i].name = name }
BackendNames(r) == { r.backends[i].name : i \in 1..Len(r.backends) }
IsPrefix(s, t) == Len(s) <= Len(t) /\ \A i \in 1..Len(s) : t[i] = s[i]

\* C1: when exactly two syncs were started, of two different containers that
\* declare the same frontend name on the same endpoint with different rules,
\* both returned nil, no remote call failed, and the remote had no frontend
\* of that name at the start, then the endpoint holds exactly one frontend of
\* that name, with two access rules and two actions.
SharedFrontendIsMerged ==
    (Len(synced) = 2 /\ started = 2 /\ faulty = 0 /\ synced[1] # synced[2]) =>
        \A x \in ParseContainer(Universe[synced[1]], traefikCompatMode),
           y \in ParseContainer(Universe[synced[2]], traefikCompatMode) :
            (/\ x.ok /\ y.ok
             /\ x.config.FrontendConfig.Name = y.config.FrontendConfig.Name
             /\ x.config.FrontendConfig.Rule # y.config.FrontendConfig.Rule
             /\ ClientOf(x) = ClientOf(y)
             /\ FrontendsNamed(remote0[ClientOf(x)], x.config.FrontendConfig.Name) = {})
            => LET named == FrontendsNamed(remote[ClientOf(x)],
                                           x.config.FrontendConfig.Name)
               IN  /\ Cardinality(named) = 1
                   /\ \A i \in named :
                        /\ Len(remote[ClientOf(x)].frontends[i].ha_acls) = 2
                        /\ Len(remote[ClientOf(x)].frontends[i].a_actionitems) = 2

\* the second container of the universe was synced before the first, and the
\* frontend "web" they share is there once
SharedFrontendIsMergedWitness ==
    /\ synced = << 2, 1 >>
    /\ started = 2
    /\ faulty = 0
    /\ FrontendsNamed(remote0["default"], "web") = {}
    /\ Cardinality(FrontendsNamed(remote["default"], "web")) = 1

\* C2: every update of a backend is sent for a name the remote holds, carries
\* in its body the identifier of a remote backend of that name, and comes in
\* a sync that issues no create; every create is sent for a name the remote
\* did not hold.
UpdateCarriesIdentifier ==
    \A i \in 1..Len(calls) :
        /\ calls[i].op = "PATCH backend" =>
              /\ "id" \in DOMAIN calls[i].body
              /\ \E k \in BackendsNamed(remote[calls[i].ep], calls[i].body.name) :
                    remote[calls[i].ep].backends[k].id = calls[i].body.id
              /\ \A j \in 1..Len(calls) : calls[j].op # "POST backend"
        /\ calls[i].op = "POST backend" =>
              Cardinality(BackendsNamed(remote[calls[i].ep], calls[i].body.name))
                  = Cardinality({ j \in 1..Len(calls) :
                                    calls[j].op = "POST backend" /\ calls[j].ok })

\* C3: no step changes or drops a frontend the remote holds, or an access
\* rule or an action of it: each list only grows at its end.
FrontendsOnlyGrow ==
    [][\A e \in DOMAIN remote : \A i \in 1..Len(remote[e].frontends) :
          /\ i <= Len(remote'[e].frontends)
          /\ remote'[e].frontends[i].id = remote[e].frontends[i].id
          /\ remote'[e].frontends[i].name = remote[e].frontends[i].name
          /\ IsPrefix(remote[e].frontends[i].ha_acls,
                      remote'[e].frontends[i].ha_acls)
          /\ IsPrefix(remote[e].frontends[i].a_actionitems,
                      remote'[e].frontends[i].a_actionitems)]_vars

\* the frontend set up by hand has got an access rule twice, by an attempt
\* that failed at the action and by its retry, and the action once
FrontendsOnlyGrowWitness ==
    /\ remote0["default"] = PresetRemote
    /\ curFaulty
    /\ remote["default"].frontends[1].ha_acls[1].name = "m-acl"
    /\ Len(remote["default"].frontends[1].ha_acls) = 3
    /\ Len(remote["default"].frontends[1].a_actionitems) = 2

\* C4: a step that handles an event without starting a sync (a stop or a
\* destroy) makes no remote call and leaves the remote as it is, and no step
\* drops a backend or a frontend from the remote.
NothingIsRemoved ==
    [][/\ (events' # events /\ started' = started)
             => (remote' = remote /\ calls' = << >>)
       /\ \A e \in DOMAIN remote :
             /\ \A i \in 1..Len(remote[e].backends) :
                   /\ i <= Len(remote'[e].backends)
                   /\ remote'[e].backends[i].id = remote[e].backends[i].id
                   /\ remote'[e].backends[i].name = remote[e].backends[i].name
             /\ \A i \in 1..Len(remote[e].frontends) :
                   /\ i <= Len(remote'[e].frontends)
                   /\ remote'[e].frontends[i].id = remote[e].frontends[i].id
                   /\ remote'[e].frontends[i].name = remote[e].frontends[i].name]_vars

\* a stop or destroy event was handled for a container whose backend and
\* frontend the engine had created, and they are still there
NothingIsRemovedWitness ==
    /\ last.why = "removal not implemented"
    /\ last.c = 1
    /\ remote0["default"] = EmptyRemote
    /\ BackendsNamed(remote["default"], "web-a-backend") # {}
    /\ FrontendsNamed(remote["default"], "web") # {}

\* the place of a remote call in a sync: backend step, frontend step, commit
Phase(op) ==
    IF op \in BackendWrites \cup { "GET backends" } THEN 1
    ELSE IF op \in FrontendCalls THEN 2
    ELSE 3

\* C5: the remote calls of one sync go to one endpoint and come in the order
\* backend step, frontend step, commit; a frontend call comes only after a
\* backend create or update of the sync succeeded, and a commit call only
\* after a frontend create or append of the sync succeeded.
StepsAreOrdered ==
    \A i \in 1..Len(calls) :
        /\ calls[i].ep = calls[1].ep
        /\ \A j \in 1..(i - 1) : Phase(calls[j].op) <= Phase(calls[i].op)
        /\ calls[i].op \in FrontendCalls => BackendDone(i - 1)
        /\ calls[i].op = "POST apply" => BackendDone(i - 1) /\ FrontendDone(i - 1)

\* a sync went through its three steps and returned nil
StepsAreOrderedWitness ==
    /\ SyncReturned
    /\ ~last.err
    /\ Commits # {}
    /\ \E i \in 1..Len(calls) : calls[i].op = "PATCH backend" /\ calls[i].ok
    /\ \E i \in 1..Len(calls) : calls[i].op = "POST frontend/action" /\ calls[i].ok

\* C6: the backend an action names is on the endpoint the action is sent to;
\* an appended action names the access rule that the call before it appended
\* to the same frontend, and an action of a created frontend names an access
\* rule of the same body.
ActionRefersToWhatExists ==
    \A i \in 1..Len(calls) :
        /\ calls[i].op = "POST frontend/action" =>
              /\ calls[i].body.backend \in BackendNames(remote[calls[i].ep])
              /\ i > 1
              /\ calls[i - 1].op = "POST frontend/acl"
              /\ calls[i - 1].ok
              /\ calls[i - 1].body.parent_id = calls[i].body.parent_id
              /\ calls[i - 1].body.name = calls[i].body.acl
        /\ calls[i].op = "POST frontend" =>
              /\ Len(calls[i].body.a_actionitems) > 0
              /\ \A k \in 1..Len(calls[i].body.a_actionitems) :
                    /\ calls[i].body.a_actionitems[k].backend
                           \in BackendNames(remote[calls[i].ep])
                    /\ \E a \in 1..Len(calls[i].body.ha_acls) :
                          calls[i].body.ha_acls[a].name
                              = calls[i].body.a_actionitems[k].acl

\* an action was appended to a frontend that was there before
ActionRefersToWhatExistsWitness ==
    \E i \in 1..Len(calls) :
        /\ calls[i].op = "POST frontend/action"
        /\ calls[i].ok
        /\ calls[i].body.acl = "b-acl"

\* C7, as the claim has it: a sync that completed its backend and frontend
\* steps issues exactly one commit call, after them, and no sync issues more
\* than one commit call.
OneCommitCall ==
    /\ \A i \in Commits : BackendDone(i - 1) /\ FrontendDone(i - 1)
    /\ (SyncReturned /\ BackendDone(Len(calls)) /\ FrontendDone(Len(calls)))
           => Cardinality(Commits) = 1
    /\ Cardinality(Commits) <= 1

\* C7, amended: the commit calls of a sync come after its backend and
\* frontend steps succeeded; there are at most RetryAttempts of them, each
\* but the first after a failed one, so none follows a commit that succeeded;
\* a sync that completed both steps has issued a commit when it returns, and
\* when it returns nil the commit that succeeded is its last call.
OneCommitThatSucceeds ==
    /\ \A i \in Commits : BackendDone(i - 1) /\ FrontendDone(i - 1)
    /\ Cardinality(Commits) <= RetryAttempts
    /\ \A i \in Commits : calls[i].ok => i = Len(calls)
    /\ (SyncReturned /\ BackendDone(Len(calls)) /\ FrontendDone(Len(calls))) =>
           /\ Commits # {}
           /\ last.err <=> ~calls[Len(calls)].ok
           /\ last.err => Cardinality(Commits) = RetryAttempts

\* a sync returned nil after its commit failed twice and then succeeded
OneCommitThatSucceedsWitness ==
    /\ SyncReturned
    /\ ~last.err
    /\ Cardinality(Commits) = RetryAttempts
    /\ calls[Len(calls)].ok

\* C8: a sync that looked the backend up and did not get a backend create or
\* update through returns an error and has made no frontend call and no
\* commit call; a sync whose backend step succeeded and whose frontend step
\* did not returns an error and has made no commit call.
FailedStepEndsSync ==
    SyncReturned =>
        /\ (Len(calls) > 0 /\ ~BackendDone(Len(calls))) =>
               /\ last.err
               /\ \A i \in 1..Len(calls) : Phase(calls[i].op) = 1
        /\ (BackendDone(Len(calls)) /\ ~FrontendDone(Len(calls))) =>
               /\ last.err
               /\ Commits = {}

\* a sync returned an error after its backend was created and every attempt
\* to create its frontend failed
FailedStepEndsSyncWitness ==
    /\ SyncReturned
    /\ last.err
    /\ BackendDone(Len(calls))
    /\ Cardinality({ i \in 1..Len(calls) :
                       calls[i].op = "POST frontend" /\ ~calls[i].ok }) = RetryAttempts

\* C9: while performSync ranges over its list and after it returned, the
\* syncs attempted are those of a prefix of the list, in list order, once
\* each, and the error counter has grown since the start of the cycle by the
\* number of them that returned an error; when it has returned, every
\* container of the list was attempted and the cycle was counted as a sync.
CycleIsolatesFailures ==
    (inCycle \/ cycle.done) =>
        /\ Len(cycle.results) <= Len(cycle.list)
        /\ \A i \in 1..Len(cycle.results) : cycle.results[i].c = cycle.list[i]
        /\ errorCount = cycle.errors
               + Cardinality({ i \in 1..Len(cycle.results) : cycle.results[i].err })
        /\ cycle.done => Len(cycle.results) = Len(cycle.list) /\ syncCount > 0

\* a cycle over two containers is done: the sync of the first failed, the
\* sync of the second was attempted and returned nil
CycleIsolatesFailuresWitness ==
    /\ cycle.done
    /\ Len(cycle.list) = 2
    /\ cycle.results[1].err
    /\ ~cycle.results[2].err
    /\ errorCount = cycle.errors + 1

\* C10: a step that starts the sync of a running container whose translation
\* fails in every schema that is tried makes no remote call, leaves the
\* remote and the error counter as they are, and returns nil.
IneligibleIsSkipped ==
    [][\A c \in Containers :
          (/\ started' = started + 1
           /\ last'.c = c
           /\ Universe[c].State = "running"
           /\ \A r \in ParseContainer(Universe[c], traefikCompatMode) : ~r.ok)
          => /\ calls' = << >>
             /\ remote' = remote
             /\ ~last'.err
             /\ errorCount' = errorCount
             /\ pc' \in { "select", "loop" }]_vars

\* with the compatibility mode on, the sync of the container whose labels
\* fail in both schemas returned nil without a remote call
IneligibleIsSkippedWitness ==
    /\ traefikCompatMode
    /\ last.c = 5
    /\ last.why = "not eligible"
    /\ ~last.err
    /\ calls = << >>
    /\ errorCount = 0

\* the container carries the native enable label and its metadata has a
\* validation error: no schema that is tried translates it, or the rule of a
\* translation is in none of the three forms
HasValidationError(c) ==
    /\ hasControllerLabels(Universe[c].Labels)
    /\ \/ \A r \in ParseContainer(Universe[c], traefikCompatMode) : ~r.ok
       \/ \E r \in ParseContainer(Universe[c], traefikCompatMode) :
             r.ok /\ ~ConvertToHAProxyFrontend(r.config).ok

\* C11: when the sync of a running container whose metadata has a validation
\* error has returned, it has returned an error, which the caller counted,
\* and no remote call of the sync was made again after it failed.
ValidationErrorIsCounted ==
    (SyncReturned /\ Universe[last.c].State = "running" /\ HasValidationError(last.c))
        => /\ last.err
           /\ errorCount > 0
           /\ \A i, j \in 1..Len(calls) :
                 (i < j /\ calls[i].op = calls[j].op) => calls[i].ok

(***************************************************************************)
(* Properties of retryOperation.                                           *)
(***************************************************************************)
RECURSIVE SumSeq(_)
SumSeq(q) == IF q = << >> THEN 0 ELSE Head(q) + SumSeq(Tail(q))

\* C12: under N attempts the operation is called at most N times; a call
\* that returns nil is the last one and makes retryOperation return nil; when
\* retryOperation has returned, either the last call returned nil, or N calls
\* were made, each returned an error, and the error returned names N and
\* wraps the error of the N-th call.
RetryStopsAtFirstSuccess ==
    job.kind = "retry" =>
        /\ Len(out.returns) <= job.N
        /\ \A i \in 1..Len(out.returns) :
              out.returns[i] = "nil" =>
                  /\ i = Len(out.returns)
                  /\ out.pc = "done"
                  /\ ~out.result.err
        /\ out.pc = "done" =>
              IF out.result.err
              THEN /\ Len(out.returns) = job.N
                   /\ \A i \in 1..job.N : out.returns[i] \in Errors
                   /\ out.result.attempts = job.N
                   /\ job.N > 0 => out.result.wraps = out.returns[job.N]
              ELSE /\ out.returns # << >>
                   /\ out.returns[Len(out.returns)] = "nil"

\* three attempts failed, the first two for one reason and the third for
\* another, and the error returned wraps the third
RetryStopsAtFirstSuccessWitness ==
    /\ job.kind = "retry"
    /\ job.N = 3
    /\ out.pc = "done"
    /\ out.returns = << "refused", "refused", "timeout" >>
    /\ out.result = [err |-> TRUE, attempts |-> 3, wraps |-> "timeout"]

\* C13, as the claim has it: the wait before attempt k+1, made after attempt
\* k failed, is (k-1)*D, so none before the second attempt.
WaitIsKMinusOneTimesD ==
    job.kind = "retry" =>
        \A k \in 1..(Len(out.returns) - 1) :
            /\ k <= Len(out.slept)
            /\ out.slept[k] = (k - 1) * job.D

\* C13, amended: the wait before attempt k+1, made after attempt k failed, is
\* k*D, so D before the second attempt; no wait precedes the first attempt.
WaitIsKTimesD ==
    job.kind = "retry" =>
        /\ Len(out.slept) = IF out.returns = << >> THEN 0 ELSE Len(out.returns) - 1
        /\ \A k \in 1..(Len(out.returns) - 1) : out.slept[k] = k * job.D

\* under a delay of one second the fourth attempt was made, after waits of
\* one, two and three seconds
WaitIsKTimesDWitness ==
    /\ job.kind = "retry"
    /\ job.D = 1
    /\ Len(out.returns) = 4
    /\ out.slept = << 1, 2, 3 >>

\* C14: under 3 attempts and a delay of 5 seconds, when the operation has
\* failed twice and then returned nil, it was called three times, the waits
\* were none before the first call, 5 seconds before the second and 10
\* seconds before the third, 15 seconds in all, and retryOperation has
\* returned nil.
ThirdAttemptAfterFifteenSeconds ==
    (/\ job.kind = "retry"
     /\ job.N = 3
     /\ job.D = 5
     /\ Len(out.returns) = 3
     /\ out.returns[3] = "nil")
        => /\ out.returns[1] \in Errors
           /\ out.returns[2] \in Errors
           /\ out.slept = << 5, 10 >>
           /\ SumSeq(out.slept) = 15
           /\ out.pc = "done"
           /\ ~out.result.err

\* the configuration's defaults, two failures and a success
ThirdAttemptAfterFifteenSecondsWitness ==
    /\ job = [kind |-> "retry", N |-> RetryAttempts, D |-> RetryDelay]
    /\ out.returns = << "timeout", "refused", "nil" >>
    /\ out.pc = "done"

(***************************************************************************)
(* Properties of the choice of the client.                                 *)
(***************************************************************************)
Configured(endpoints, name) == \E i \in 1..Len(endpoints) : endpoints[i] = name

DistinctNames(endpoints) ==
    \A i, j \in 1..Len(endpoints) : endpoints[i] = endpoints[j] => i = j

\* C15: when the name asked for is configured the client chosen is one of an
\* endpoint of that name; when it is not and an endpoint is configured, the
\* client chosen is the one made for the first configured endpoint; the
\* choice fails exactly when no endpoint is configured.
ResolvesToNamedOrFirst ==
    (job.kind = "resolve" /\ out.pc = "done") =>
        /\ Configured(job.endpoints, out.name) =>
               /\ out.client # 0
               /\ job.endpoints[out.client] = out.name
        /\ (~Configured(job.endpoints, out.name) /\ Len(job.endpoints) > 0) =>
               out.client = 1
        /\ out.err <=> Len(job.endpoints) = 0

\* C16: under a configuration whose endpoints have different names, the
\* client chosen for a container without endpoint label is the one made for
\* the first configured endpoint.
NoLabelGoesToFirst ==
    (/\ job.kind = "resolve"
     /\ out.pc = "done"
     /\ ControllerEndpointLabel \notin DOMAIN job.info.Labels
     /\ Len(job.endpoints) > 0
     /\ DistinctNames(job.endpoints))
        => out.client = 1

(***************************************************************************)
(* Properties of the translation.                                          *)
(***************************************************************************)
\* what parseControllerLabels and parseTraefikLabels return for the container
\* of the job
NativeResults == { parseControllerLabels(job.info, job.info.Labels, a) :
                       a \in GetContainerIP(job.info) }
TraefikResults == TraefikOutcomes(job.info, job.info.Labels)

Translated == job.kind = "translate" /\ out.pc = "done"

\* the container carries the label with the value "true"
IsTrue(label) == label \in DOMAIN job.info.Labels /\ job.info.Labels[label] = "true"

\* the container carries the label with a value that is not empty
NonEmpty(label) == label \in DOMAIN job.info.Labels /\ job.info.Labels[label] # ""

HasAddress == GetContainerIP(job.info) # { "" }

\* C17: when the native schema translates the container, ParseContainer
\* returns that configuration in parse mode "controller", under either
\* setting of the compatibility mode; when it does not, the compatibility
\* mode is on and the Traefik schema translates the container, ParseContainer
\* returns that configuration in parse mode "traefik"; in every other case
\* it returns no configuration.
NativeFirstThenCompat ==
    Translated =>
        IF \E n \in NativeResults : n.ok
        THEN /\ out.result \in NativeResults
             /\ out.result.ok
             /\ out.result.config.ParseMode = "controller"
        ELSE IF job.compat /\ \E t \in TraefikResults : t.ok
        THEN /\ out.result \in TraefikResults
             /\ out.result.ok
             /\ out.result.config.ParseMode = TraefikMode
        ELSE /\ ~out.result.ok
             /\ "config" \notin DOMAIN out.result

\* with the compatibility mode on, a container with the native enable label
\* and a port that is no number got the configuration of the Traefik schema
NativeFirstThenCompatWitness ==
    /\ Translated
    /\ job.compat
    /\ IsTrue(ControllerEnableLabel)
    /\ NonEmpty(ControllerBackendPortLabel)
    /\ \A n \in NativeResults : ~n.ok
    /\ out.result.ok
    /\ out.result.config.ParseMode = TraefikMode

\* C18: with the compatibility mode on, a container whose traefik.enable
\* label is absent or not "true" gets no configuration in parse mode
\* "traefik", whatever its other labels are.
NoTraefikFlagNoCompat ==
    (Translated /\ job.compat /\ ~IsTrue(TraefikEnableLabel))
        => ~(out.result.ok /\ out.result.config.ParseMode = TraefikMode)

\* a container with a service port, a rule and an address, with neither
\* enable label, got no configuration under the compatibility mode
NoTraefikFlagNoCompatWitness ==
    /\ Translated
    /\ job.compat
    /\ TraefikEnableLabel \notin DOMAIN job.info.Labels
    /\ ControllerEnableLabel \notin DOMAIN job.info.Labels
    /\ TraefikPortLabel \in DOMAIN job.info.Labels
    /\ job.info.Labels[TraefikPortLabel] = "80"
    /\ NonEmpty(ControllerFrontendRuleLabel)
    /\ HasAddress
    /\ ~out.result.ok

\* the labels and the address the native schema cannot do without
NativeRequirements ==
    /\ IsTrue(ControllerEnableLabel)
    /\ NonEmpty(ControllerBackendPortLabel)
    /\ NonEmpty(ControllerFrontendRuleLabel)
    /\ HasAddress

\* C19: a configuration in parse mode "controller" is returned only for a
\* container whose enable label is "true", whose port and rule labels are
\* there and not empty and which has an address; for any other container the
\* native schema returns an error and no configuration, and so does
\* ParseContainer with the compatibility mode off.
NativeNeedsFlagPortRuleAddress ==
    Translated =>
        /\ (out.result.ok /\ out.result.config.ParseMode = "controller")
               => NativeRequirements
        /\ ~NativeRequirements =>
               /\ \A n \in NativeResults :
                     ~n.ok /\ n.err # Nil /\ "config" \notin DOMAIN n
               /\ ~job.compat => ~out.result.ok /\ "config" \notin DOMAIN out.result

\* a container with the flag, a port and a rule but without an address got
\* no configuration
NativeNeedsFlagPortRuleAddressWitness ==
    /\ Translated
    /\ ~job.compat
    /\ IsTrue(ControllerEnableLabel)
    /\ NonEmpty(ControllerBackendPortLabel)
    /\ NonEmpty(ControllerFrontendRuleLabel)
    /\ ~HasAddress
    /\ ~out.result.ok

\* the check type is http, in any case of the letters, and the health-check
\* path is absent or empty
HTTPWithoutPath ==
    /\ ControllerBackendCheckTypeLabel \in DOMAIN job.info.Labels
    /\ ToLower(job.info.Labels[ControllerBackendCheckTypeLabel]) = "http"
    /\ ~NonEmpty(ControllerBackendHealthCheckLabel)

\* the container's metadata is valid for the schema but for the health check
NativeValid ==
    /\ NativeRequirements
    /\ AtoiOk(job.info.Labels[ControllerBackendPortLabel])

TraefikValid ==
    /\ IsTrue(TraefikEnableLabel)
    /\ TraefikPortLabel \in DOMAIN job.info.Labels
    /\ AtoiOk(job.info.Labels[TraefikPortLabel])
    /\ NonEmpty(ControllerFrontendRuleLabel)
    /\ HasAddress

\* C20: for a container with check type http and no health-check path,
\* ParseContainer returns no configuration; when the metadata is otherwise
\* valid for the native schema, that schema's error is the one about the
\* missing path, and likewise for the Traefik schema.
HTTPCheckNeedsPath ==
    (Translated /\ HTTPWithoutPath) =>
        /\ ~out.result.ok
        /\ "config" \notin DOMAIN out.result
        /\ NativeValid =>
               \A n \in NativeResults :
                   /\ ~n.ok
                   /\ Contains(n.err, "health check path is required for HTTP check type")
        /\ TraefikValid =>
               \A t \in TraefikResults :
                   /\ ~t.ok
                   /\ Contains(t.err, "health check path is required for HTTP check type")

\* under the compatibility mode, a container valid for both schemas with
\* check type HTTP and an empty path label got no configuration
HTTPCheckNeedsPathWitness ==
    /\ Translated
    /\ job.compat
    /\ NativeValid
    /\ TraefikValid
    /\ HTTPWithoutPath
    /\ job.info.Labels[ControllerBackendCheckTypeLabel] = "HTTP"
    /\ ControllerBackendHealthCheckLabel \in DOMAIN job.info.Labels
    /\ job.info.Labels[ControllerBackendHealthCheckLabel] = ""
    /\ ~out.result.ok

\* the check type the translation works with: the label's value, "basic"
\* when the container carries no such label
CheckTypeOf == getStringLabel(job.info.Labels, ControllerBackendCheckTypeLabel, "basic")

\* the health-check fields of the backend b follow the rule for the
\* container's check type
HealthFieldsFollowRule(b) ==
    /\ ToLower(CheckTypeOf) \in { "none", "basic", "http" }
    /\ ToLower(CheckTypeOf) \in { "none", "basic" } =>
           /\ b.HealthCheckPath = ""
           /\ b.HealthCheckMethod = ""
           /\ b.HealthCheckVersion = ""
    /\ ToLower(CheckTypeOf) = "http" =>
           /\ b.HealthCheckPath = job.info.Labels[ControllerBackendHealthCheckLabel]
           /\ b.HealthCheckMethod =
                  (IF ControllerBackendHealthMethodLabel \in DOMAIN job.info.Labels
                   THEN job.info.Labels[ControllerBackendHealthMethodLabel]
                   ELSE "OPTIONS")
           /\ b.HealthCheckVersion = "HTTP/1.1\\r\\nHost:\\ " \o b.Address

\* C21: in either schema, a configuration's health-check fields are empty for
\* the check types none and basic whatever health labels the container
\* carries; for http the path is the native path label, the method the native
\* method label or OPTIONS, and the version names the backend address; with
\* any other check type a container otherwise valid for the schema gets an
\* error that names the value.
HealthCheckRule ==
    Translated =>
        /\ \A r \in NativeResults \cup TraefikResults \cup { out.result } :
               r.ok => HealthFieldsFollowRule(r.config.BackendConfig)
        /\ ToLower(CheckTypeOf) \notin { "none", "basic", "http" } =>
               /\ NativeValid =>
                      \A n \in NativeResults :
                          ~n.ok /\ Contains(n.err, "invalid check type '" \o CheckTypeOf \o "'")
               /\ TraefikValid =>
                      \A t \in TraefikResults :
                          ~t.ok /\ Contains(t.err, "invalid check type '" \o CheckTypeOf \o "'")

\* under the compatibility mode, a container of check type HTTP with a path
\* and no method label was translated by the Traefik schema with the method
\* OPTIONS
HealthCheckRuleWitness ==
    /\ Translated
    /\ out.result.ok
    /\ out.result.config.ParseMode = "traefik"
    /\ CheckTypeOf = "HTTP"
    /\ ControllerBackendHealthMethodLabel \notin DOMAIN job.info.Labels
    /\ out.result.config.BackendConfig.HealthCheckMethod = "OPTIONS"
    /\ out.result.config.BackendConfig.HealthCheckPath = "/h"

(***************************************************************************)
(* Properties of the rule parser.                                          *)
(***************************************************************************)
RuleParsed == job.kind = "rule" /\ out.pc = "done"

\* the term has one of the three forms of the grammar
WellFormed(t) == t.fn \in RuleFns /\ t.quoted /\ t.value # ""

\* the operator the grammar gives to a function
OperatorOf(fn) ==
    IF fn = "Host" THEN "host_matches" ELSE IF fn = "PathPrefix" THEN "path_beg" ELSE "path"

\* the positions of the rule's well-formed terms of function fn
TermsOf(fn) == { i \in 1..Len(job.terms) : WellFormed(job.terms[i]) /\ job.terms[i].fn = fn }

\* the function whose pattern is the first to match: Host, then PathPrefix,
\* then Path ("" when no pattern matches)
FirstFn ==
    IF TermsOf("Host") # {} THEN "Host"
    ELSE IF TermsOf("PathPrefix") # {} THEN "PathPrefix"
    ELSE IF TermsOf("Path") # {} THEN "Path"
    ELSE ""

\* C22: the parser tries Host, then PathPrefix, then Path, and the first
\* pattern that matches decides: the result is that function's operator with
\* the value of its term (so a rule that is one Host, PathPrefix or Path term
\* yields host_matches, path_beg or path with the term's value); a string in
\* which none of the three patterns matches fails with an error "unsupported
\* rule format".
FirstPatternWins ==
    RuleParsed =>
        IF FirstFn = ""
        THEN /\ ~out.result.ok
             /\ Contains(out.result.err, "unsupported rule format")
        ELSE /\ out.result.ok
             /\ out.result.err = Nil
             /\ out.result.expression = OperatorOf(FirstFn)
             /\ out.result.value = job.terms[Min(TermsOf(FirstFn))].value

\* a rule that is the single term PathPrefix( '/api' ), written with white
\* space inside the parentheses, was parsed to (path_beg, /api)
FirstPatternWinsWitness ==
    /\ RuleParsed
    /\ Len(job.terms) = 1
    /\ job.terms[1].fn = "PathPrefix"
    /\ job.terms[1].pad = " "
    /\ out.result.ok
    /\ out.result.expression = "path_beg"
    /\ out.result.value = "/api"

\* C23: a rule made of two terms joined by && or || is rejected by the
\* parser.
CompoundRuleRejected ==
    (RuleParsed /\ Len(job.terms) = 2) => ~out.result.ok

(***************************************************************************)
(* Properties of the names.                                                *)
(***************************************************************************)
\* only letters, digits, hyphen and underscore, no two hyphens in a row, no
\* hyphen at either end
CleanName(s) ==
    /\ CharsOf(s) \subseteq NameChars
    /\ ~Contains(s, "--")
    /\ Len(s) > 0 => Ch(s, 1) # "-" /\ Ch(s, Len(s)) # "-"

\* C24: the result of sanitizeName holds only letters, digits, hyphens and
\* underscores, no two consecutive hyphens and no hyphen at either end, and
\* sanitizing it again gives the same string.
SanitizeIsCleanAndIdempotent ==
    job.kind = "sanitize" =>
        /\ out.pc \in { "once", "twice" } => CleanName(out.result)
        /\ out.pc = "twice" => out.again = out.result

\* the name "a./Z" was sanitized to "a-Z", and "a-Z" to itself
SanitizeIsCleanAndIdempotentWitness ==
    /\ job.kind = "sanitize"
    /\ out.pc = "twice"
    /\ job.name = "a./Z"
    /\ out.result = "a-Z"
    /\ out.again = "a-Z"

\* the translation returned a configuration
GotConfig == Translated /\ out.result.ok

\* C25: in every configuration returned, the backend name, the server name,
\* the frontend name and the ACL name hold only letters, digits, hyphens and
\* underscores, no two consecutive hyphens and no hyphen at either end.
NamesAreClean ==
    GotConfig =>
        /\ CleanName(out.result.config.BackendConfig.Name)
        /\ CleanName(out.result.config.BackendConfig.ServerName)
        /\ CleanName(out.result.config.FrontendConfig.Name)
        /\ CleanName(out.result.config.FrontendConfig.ACLName)

\* the string is one or more digits and is not zero
PositiveNumber(s) ==
    /\ Len(s) > 0
    /\ CharsOf(s) \subseteq CharsOf(Digits)
    /\ CharsOf(s) # { "0" }

\* C26: in every configuration returned, in either parse mode, the backend
\* port is a positive integer in text.
PortIsPositive ==
    GotConfig => PositiveNumber(out.result.config.BackendConfig.Port)

\* C27: in every configuration returned, the frontend rule is one the rule
\* parser accepts.
RuleParses ==
    GotConfig => parseRule(out.result.config.FrontendConfig.Rule).ok

\* the slug of the container's rule: the sanitized value the rule parser
\* extracts, the sanitized rule when the parser rejects it
SlugOf(rule) ==
    IF parseRule(rule).ok THEN sanitizeName(parseRule(rule).value) ELSE sanitizeName(rule)

\* the name is the label's value when the container carries the label with a
\* value that is not empty, and the default when it does not carry the label
LabelOrDefault(name, label, default) ==
    /\ label \notin DOMAIN job.info.Labels => name = default
    /\ NonEmpty(label) => name = job.info.Labels[label]

\* C28: in a configuration of parse mode "controller", a name whose label the
\* container does not carry is the default (backend: the sanitized container
\* name followed by "-backend"; server: the sanitized container name; frontend
\* and ACL: "auto-frontend-" and "auto-acl-" followed by the slug of the rule),
\* and a name whose label is present and not empty is the label's value.
NativeNameDefaults ==
    (GotConfig /\ out.result.config.ParseMode = "controller") =>
        /\ LabelOrDefault(out.result.config.BackendConfig.Name,
                          ControllerBackendNameLabel,
                          sanitizeName(job.info.Name) \o "-backend")
        /\ LabelOrDefault(out.result.config.BackendConfig.ServerName,
                          ControllerBackendServerNameLabel,
                          sanitizeName(job.info.Name))
        /\ LabelOrDefault(out.result.config.FrontendConfig.Name,
                          ControllerFrontendNameLabel,
                          "auto-frontend-"
                              \o SlugOf(job.info.Labels[ControllerFrontendRuleLabel]))
        /\ LabelOrDefault(out.result.config.FrontendConfig.ACLName,
                          ControllerFrontendACLNameLabel,
                          "auto-acl-"
                              \o SlugOf(job.info.Labels[ControllerFrontendRuleLabel]))

\* the container "my.app" with a rule the parser rejects, a backend name label
\* and no other name label was translated with the label's backend name and
\* the default server, frontend and ACL names
NativeNameDefaultsWitness ==
    /\ GotConfig
    /\ out.result.config.ParseMode = "controller"
    /\ job.info.Name = "my.app"
    /\ job.info.Labels[ControllerFrontendRuleLabel] = "Host(c.io)"
    /\ NonEmpty(ControllerBackendNameLabel)
    /\ out.result.config.BackendConfig.Name = "my backend"
    /\ out.result.config.BackendConfig.ServerName = "my-app"
    /\ out.result.config.FrontendConfig.Name = "auto-frontend-Host-c-io"
    /\ out.result.config.FrontendConfig.ACLName = "auto-acl-Host-c-io"

(***************************************************************************)
(* Convergence.                                                            *)
(***************************************************************************)
\* a sync has just returned the error of a remote call that failed for a
\* reason of the network: a lookup, or the last attempt of a retried call
GaveUp == last.c # 0 /\ last.err /\ curFaulty

\* the running containers with valid metadata under either setting of the
\* compatibility mode, and what each declares: its endpoint, its backend with
\* the server, its frontend with the access rule
Declared ==
    (1 :> [endpoint |-> "default", backend |-> "web-a-backend", server |-> "web-a",
           address |-> "10.0.0.2", port |-> "80", frontend |-> "web",
           acl |-> "auto-acl-a-io", expression |-> "host_matches", value |-> "a.io"])
    @@ (2 :> [endpoint |-> "default", backend |-> "web-b-backend", server |-> "web-b",
              address |-> "10.0.0.3", port |-> "8080", frontend |-> "web",
              acl |-> "b-acl", expression |-> "path_beg", value |-> "/b"])
    @@ (6 :> [endpoint |-> "edge", backend |-> "api", server |-> "api",
              address |-> "10.0.1.2", port |-> "443", frontend |-> "web",
              acl |-> "auto-acl-api-io", expression |-> "host_matches",
              value |-> "api.io"])

\* the endpoint r holds the declared backend with its server, and the declared
\* frontend with the access rule and its use_backend action
Holds(r, d) ==
    /\ \E i \in BackendsNamed(r, d.backend) :
           \E j \in 1..Len(r.backends[i].servers) :
               /\ r.backends[i].servers[j].name = d.server
               /\ r.backends[i].servers[j].address = d.address
               /\ r.backends[i].servers[j].port = d.port
    /\ \E i \in FrontendsNamed(r, d.frontend) :
           /\ \E j \in 1..Len(r.frontends[i].ha_acls) :
                  /\ r.frontends[i].ha_acls[j].name = d.acl
                  /\ r.frontends[i].ha_acls[j].expression = d.expression
                  /\ r.frontends[i].ha_acls[j].value = d.value
           /\ \E j \in 1..Len(r.frontends[i].a_actionitems) :
                  /\ r.frontends[i].a_actionitems[j].action = "use_backend"
                  /\ r.frontends[i].a_actionitems[j].acl = d.acl
                  /\ r.frontends[i].a_actionitems[j].backend = d.backend

\* the remote holds the container's objects and a sync of the container has
\* returned nil after its commit
Converged(c) ==
    /\ \E i \in 1..Len(synced) : synced[i] = c
    /\ Holds(remote[Declared[c].endpoint], Declared[c])

\* performSync has listed the container
Listed(c) == inCycle /\ \E i \in 1..Len(cycle.list) : cycle.list[i] = c

\* C29: when no sync ever returns the error of a remote call that failed for
\* a reason of the network, every running container with valid metadata that
\* a timer tick has listed is in the end held by its endpoint, backend with
\* server and frontend with access rule and use_backend action, after a sync
\* that returned nil after its commit.
ListedConverges ==
    ([]~GaveUp) => \A c \in DOMAIN Declared : Listed(c) ~> Converged(c)

\* the container "web-b" was listed by a tick and is converged after a sync in
\* which a remote call failed and was tried again
ListedConvergesWitness ==
    /\ Listed(2)
    /\ last.c = 2
    /\ ~last.err
    /\ curFaulty
    /\ Converged(2)

(***************************************************************************)
(* Properties of the container source.                                     *)
(***************************************************************************)
\* the container carries traefik.enable=true, a Traefik service port label
\* and the native rule label, and no native enable label
CompatExample(c) ==
    /\ Universe[c].State = "running"
    /\ TraefikEnableLabel \in DOMAIN Universe[c].Labels
    /\ Universe[c].Labels[TraefikEnableLabel] = "true"
    /\ ServicePortKeys(Universe[c].Labels) # {}
    /\ ControllerFrontendRuleLabel \in DOMAIN Universe[c].Labels
    /\ ControllerEnableLabel \notin DOMAIN Universe[c].Labels

\* C30: with the compatibility mode on, a running container with
\* traefik.enable=true, a Traefik service port label and the native rule
\* label but no native enable label is in the list ListContainers returns
\* when the runtime holds it, and its start and update events are put on the
\* event channel.
CompatExampleIsDelivered ==
    (job.kind \in { "list", "event" } /\ job.compat /\ out.pc = "done") =>
        /\ job.kind = "list" =>
               \A i \in 1..Len(job.present) :
                   CompatExample(job.present[i]) =>
                       \E j \in 1..Len(out.list) : out.list[j] = job.present[i]
        /\ (job.kind = "event" /\ job.action \in { "start", "update" }
               /\ CompatExample(job.c)) =>
               out.event = [Type |-> job.action, Container |-> job.c]

(***************************************************************************)
(* Properties of the order of building and writing.                        *)
(***************************************************************************)
MutatingCalls == { "POST backend", "PATCH backend", "POST frontend", "POST frontend/acl",
                   "POST frontend/action", "POST apply" }

\* C31: a sync that ended because the desired frontend could not be built
\* (the rule does not parse) has issued no mutating remote call.
NoWriteBeforeBothBuilt ==
    (SyncReturned /\ last.why = "convert") =>
        \A i \in 1..Len(calls) : calls[i].op \notin MutatingCalls

\* C32: a sync that ended on a failed lookup of the backend or of the
\* frontend has attempted that lookup as many times as the retry policy
\* allows.
LookupIsRetried ==
    (SyncReturned /\ last.err /\ last.why \in { "findBackend", "findFrontend" }) =>
        LET op == IF last.why = "findBackend" THEN "GET backends" ELSE "GET frontends"
        IN  Cardinality({ i \in 1..Len(calls) : calls[i].op = op /\ ~calls[i].ok })
                = RetryAttempts

(* Properties of repeated syncs of one container. *)
\* the frontends of every endpoint of the remote
FrontendsOnRemote == UNION { { remote[e].frontends[i] : i \in 1..Len(remote[e].frontends) } :
                             e \in DOMAIN remote }

NoRepeats(s) == \A a, b \in 1..Len(s) : s[a] = s[b] => a = b

\* C37: re-reconciling an unchanged container adds nothing: as long as no
\* remote call has failed, no frontend holds the same access rule twice or the
\* same action twice.
ReconcileIsIdempotent ==
    faulty = 0 =>
        \A f \in FrontendsOnRemote : NoRepeats(f.ha_acls) /\ NoRepeats(f.a_actionitems)

\* the access rules of a frontend that carry the name n
RulesNamed(f, n) == { j \in 1..Len(f.ha_acls) : f.ha_acls[j].name = n }

\* C38: after a sync that returned nil, also one whose append was retried,
\* every frontend holds equally many access rules and actions, and each action
\* names an access rule of the frontend.
RulesAndActionsPaired ==
    (SyncReturned /\ ~last.err) =>
        \A f \in FrontendsOnRemote :
            /\ Len(f.ha_acls) = Len(f.a_actionitems)
            /\ \A j \in 1..Len(f.a_actionitems) : RulesNamed(f, f.a_actionitems[j].acl) # {}

(* Properties of the translation as a function of the label set. *)
\* C39: the translation is a function of the container metadata: every
\* configuration ParseContainer can return for the labels of a translated
\* container carries the backend port and the backend name of the one it did
\* return.
TranslationIsDeterministic ==
    GotConfig =>
        \A r \in ParseContainer(job.info, job.compat) :
            r.ok => /\ r.config.BackendConfig.Port = out.result.config.BackendConfig.Port
                    /\ r.config.BackendConfig.Name = out.result.config.BackendConfig.Name

(* Properties of the retry policy with no attempts. *)
\* C40: with retry_attempts = 0 no create, update, append or commit is issued
\* and the remote stays as it was found, and every sync of an eligible
\* container on a configured endpoint returns an error.
NoAttemptsNoWrites ==
    retryAttempts = 0 =>
        /\ \A i \in 1..Len(calls) : calls[i].op \notin MutatingCalls
        /\ remote = remote0
        /\ (SyncReturned /\ last.why \notin { "not running", "not eligible" }) => last.err
        /\ synced = << >>

NoAttemptsNoWritesWitness ==
    /\ retryAttempts = 0
    /\ SyncReturned
    /\ last.err
    /\ last.why = "createBackend"
    /\ Len(calls) = 1
    /\ calls[1].op = "GET backends"
    /\ calls[1].ok

(* Properties of cancellation. *)
\* C33: once the context is cancelled after an attempt that failed, the retry
\* loop sleeps no more and calls the operation no more.
RetryHonoursCancellation ==
    [][(out.cancelled /\ out.returns # << >>) =>
           (out'.returns = out.returns /\ out'.slept = out.slept)]_vars

\* C34: once the context is cancelled, a full-sync cycle in progress starts
\* no further container sync.
NoSyncAfterCancellation ==
    [][(out.cancelled /\ out.pc = "loop") => out'.started = out.started]_vars

(* Properties of the goroutines of Run. *)
\* the remote calls of each sync lie together in the log
Contiguous(log) ==
    \A i, k \in 1..Len(log) :
        (i < k /\ log[i] = log[k]) => \A j \in i..k : log[j] = log[i]

\* C35: at no time are two container syncs in progress, and the remote calls
\* of one sync never lie between those of another, whatever the watchers send.
SyncsAreSerialized ==
    /\ Cardinality(out.syncs) <= 1
    /\ (out.syncs # {}) = (out.pc = "sync")
    /\ Contiguous(out.log)

\* a timer-driven sync is calling the remote while both watchers have an
\* event waiting in the channel, after an event-driven sync has made its calls
SyncsAreSerializedWitness ==
    /\ out.pc = "sync"
    /\ \E s \in out.syncs : s.src = "tick" /\ s.calls = 1 /\ s.id = 2
    /\ out.log = << [id |-> 1, src |-> "event"], [id |-> 1, src |-> "event"],
                    [id |-> 2, src |-> "tick"] >>
    /\ Len(out.chan) = 1
    /\ out.sent = 2

\* the steps of a full-sync cycle
InCycle == out.pc \in { "loop", "sync", "defer", "deferTime", "deferCount", "deferUnlock" }

\* a snapshot the metrics handler has taken pairs a count of cycles with the
\* start of the last of them
ConsistentSnapshot ==
    (out.rpc = "idle" /\ out.reads > 0) => out.snap.lastSyncTime = out.snap.syncCount

CountersNeverDecrease ==
    /\ out'.syncCount >= out.syncCount
    /\ out'.errorCount >= out.errorCount

\* C36 as stated: the counters never decrease, a metrics read is a consistent
\* snapshot, and a full-sync cycle in which a container sync failed does not
\* increment the sync counter.
CountsSuccessfulCycles ==
    [][/\ CountersNeverDecrease
       /\ ConsistentSnapshot'
       /\ (InCycle /\ out.cycleErrs > 0) => out'.syncCount = out.syncCount]_vars

\* C36, amended: the counters never decrease, a metrics read is a consistent
\* snapshot, and the sync counter counts full-sync cycles: every cycle, also
\* one whose container syncs failed, increments it once, and nothing else does.
CountsCycles ==
    [][/\ CountersNeverDecrease
       /\ ConsistentSnapshot'
       /\ out'.syncCount = out.syncCount
               + (IF out.pc = "deferCount" /\ out'.pc = "deferUnlock" THEN 1 ELSE 0)
       /\ (out.pc = "defer" /\ out'.pc = "deferTime") => out.mu = "free" /\ out'.mu = "writer"
       /\ (out'.errorCount # out.errorCount) => out.mu = "free"]_vars

\* a cycle in which both container syncs failed has been counted and a
\* metrics request has read the counters
CountsCyclesWitness ==
    /\ out.pc = "select"
    /\ out.syncCount = 1
    /\ out.cycleErrs = 2
    /\ out.errorCount = 2
    /\ out.reads = 1
    /\ out.snap = [syncCount |-> 1, errorCount |-> 2, lastSyncTime |-> 1]

=============================================================================
